---------------------------- MODULE Spec2Model ----------------------------
(***************************************************************************)
(* Model of the Spring-bean navigation core of happy-java: the bean index  *)
(* (four views), the indexer that re-extracts files asynchronously         *)
(* (BeanIndexer.updateFile / buildFullIndex / removeFile), the extraction  *)
(* front end (JavaParser.getCST, BeanMetadataExtractor.extractFromFile)    *)
(* and the resolver cascade used by the navigateToBean command.            *)
(*                                                                         *)
(* JavaScript runs one handler at a time; a handler gives up control only  *)
(* at an await.  Every action below is one such uninterrupted run.         *)
(***************************************************************************)
EXTENDS Integers, Sequences, FiniteSets, TLC

(***************************************************************************)
(* Bounds of the model.                                                    *)
(***************************************************************************)
\* Number of source versions a file can be edited to.
MaxVersion == 2

\* Number of field declarations of a class.
MaxFields == 3

\* Number of annotation occurrences of a file.
MaxAnnotations == 2

(***************************************************************************)
(* Values: files, type names, declarations, use-sites.                     *)
(* A type name is the sequence of its dot-separated segments, so that      *)
(* "com.x.Pay" is <<"com","x","Pay">> and String.endsWith('.' + t) is a     *)
(* comparison of segment suffixes.  An absent optional string is "", which *)
(* is what the code's truthiness tests (if (injection.qualifier)) treat as *)
(* absent.                                                                 *)
(***************************************************************************)
Files == {"A.java", "B.java"}

TPayQ == <<"com", "x", "Pay">>
TPay == <<"Pay">>
TPayY == <<"com", "y", "Pay">>
Types == {TPayQ, TPay, TPayY}

\* A partially qualified name: a type name a query can carry, of no declaration.
TPayX == <<"x", "Pay">>
QueryTypes == Types \cup {TPayX}

\* The order in which byType visits the keys of the type view.
TypeOrder == <<TPayQ, TPay, TPayY>>

Names == {"pay", "alt"}
QualifierValues == {"q1", "qx"}

Bean(n, t, f, qs, prim) ==
    [name |-> n, type |-> t, file |-> f, qualifiers |-> qs, isPrimary |-> prim]

Injection(t, q, n, f, fld) ==
    [beanType |-> t, qualifier |-> q, beanName |-> n, file |-> f, fieldName |-> fld]

EmptyResult == [definitions |-> <<>>, injectionPoints |-> <<>>, raised |-> FALSE]


(***************************************************************************)
(* What a source file can hold when it is read: it is deleted, empty,      *)
(* malformed (the parser throws) or one of its parseable versions.  Files  *)
(* are edited by the user at any time, so every read and every listing     *)
(* draws what it finds from these sets.                                    *)
(***************************************************************************)
Versions == 1..MaxVersion

Source(k, v) == [kind |-> k, ver |-> v]

\* "partial" is a parseable source in which the use-site pass throws after the
\* declarations have been stored in the result.
DiskStates ==
    {Source("deleted", 0), Source("empty", 0), Source("malformed", 0),
     Source("partial", 1)}
        \cup {Source("ok", v) : v \in Versions}

NoTree == Source("none", 0)

\* B.java is only ever written in one way: it holds its one version or is gone.
SourcesOf(f) ==
    IF f = "A.java" THEN DiskStates
    ELSE {Source("deleted", 0), Source("ok", 1)}

\* The declarations and use-sites written in version v of file f.  Extracted
\* declarations never carry qualifiers or the primary mark (createBeanDefinition
\* sets qualifiers = [] and isPrimary = false).
SourceFacts(f, v) ==
    IF f = "A.java"
    THEN IF v % 2 = 1
         THEN [definitions |-> <<Bean("pay", TPayQ, f, {}, FALSE)>>,
               injectionPoints |-> <<Injection(TPay, "", "", f, "p")>>]
         ELSE [definitions |-> <<Bean("alt", TPay, f, {}, FALSE)>>,
               injectionPoints |-> <<Injection(TPayQ, "q1", "", f, "r"),
                                     Injection(TPay, "", "", f, "s")>>]
    ELSE [definitions |-> <<Bean("pay", TPay, f, {}, FALSE)>>,
          injectionPoints |-> <<Injection(TPayQ, "", "", f, "t")>>]

(***************************************************************************)
(* JavaParser: readFile, parseJava, getCST.                                *)
(***************************************************************************)
\* readFile: the text of the document, '' when it cannot be opened.
readFile(src) ==
    IF src.kind = "deleted" THEN Source("empty", 0) ELSE src

\* parseJava: the tree, undefined when the parser throws.
parseJava(content) ==
    IF content.kind = "malformed" THEN NoTree ELSE content

\* getCST: undefined for empty content, else the parse result.
getCST(src) ==
    LET content == readFile(src)
    IN  IF content.kind = "empty" THEN NoTree ELSE parseJava(content)

(***************************************************************************)
(* BeanMetadataExtractor.extractFromFile.  The result starts empty and is  *)
(* returned as it stands when there is no tree.  The whole body is inside  *)
(* one try/catch: an exception ends the extraction with whatever the       *)
(* result holds by then, and nothing is raised to the caller.  Scanning a  *)
(* missing tree dereferences undefined and throws.                         *)
(***************************************************************************)
extractFromFile_NoCatch(f, cst) ==
    IF cst = NoTree
    THEN [definitions |-> <<>>, injectionPoints |-> <<>>, raised |-> TRUE]
    ELSE [definitions |-> SourceFacts(f, cst.ver).definitions,
          injectionPoints |-> IF cst.kind = "partial" THEN <<>>
                              ELSE SourceFacts(f, cst.ver).injectionPoints,
          raised |-> cst.kind = "partial"]

extractFromFile_Stale(f, cst) ==
    IF cst = NoTree
    THEN [definitions |-> SourceFacts(f, 1).definitions,
          injectionPoints |-> SourceFacts(f, 1).injectionPoints,
          raised |-> FALSE]
    ELSE [definitions |-> SourceFacts(f, cst.ver).definitions,
          injectionPoints |->
              IF cst.kind = "partial" THEN <<>>
              ELSE SourceFacts(f, cst.ver).injectionPoints,
          raised |-> FALSE]

extractFromFile(f, cst) ==
    IF cst = NoTree
    THEN EmptyResult
    ELSE [definitions |-> SourceFacts(f, cst.ver).definitions,
          injectionPoints |-> IF cst.kind = "partial" THEN <<>>
                              ELSE SourceFacts(f, cst.ver).injectionPoints,
          raised |-> FALSE]

(***************************************************************************)
(* BeanIndex: four views over the current declarations and use-sites.      *)
(*   definitionsByType : type -> declarations                              *)
(*   definitionsByName : name -> declaration (at most one; last add wins)  *)
(*   definitionsByFile : file -> declarations                              *)
(*   injectionsByFile  : file -> use-sites                                 *)
(* An absent key is the empty sequence.                                    *)
(***************************************************************************)
EmptyIndex ==
    [definitionsByType |-> [t \in Types |-> <<>>],
     definitionsByName |-> [n \in Names |-> <<>>],
     definitionsByFile |-> [f \in Files |-> <<>>],
     injectionsByFile  |-> [f \in Files |-> <<>>]]

RECURSIVE SelectNotOf(_, _)
\* The entries of s that do not belong to file path.
SelectNotOf(s, path) ==
    IF s = <<>> THEN <<>>
    ELSE IF Head(s).file = path THEN SelectNotOf(Tail(s), path)
         ELSE <<Head(s)>> \o SelectNotOf(Tail(s), path)

\* addBeans for one declaration: appended to the type and file views, stored
\* under its name.
addBean(idx, b) ==
    [idx EXCEPT !.definitionsByType[b.type] = Append(@, b),
                !.definitionsByName[b.name] = <<b>>,
                !.definitionsByFile[b.file] = Append(@, b)]

RECURSIVE addBeans(_, _)
addBeans(idx, beans) ==
    IF beans = <<>> THEN idx
    ELSE addBeans(addBean(idx, Head(beans)), Tail(beans))

RECURSIVE addInjections(_, _)
addInjections(idx, injections) ==
    IF injections = <<>> THEN idx
    ELSE addInjections(
             [idx EXCEPT !.injectionsByFile[Head(injections).file] =
                             Append(@, Head(injections))],
             Tail(injections))

\* removeFileEntries: every declaration and use-site owned by path leaves the
\* four views.
removeFileEntries(idx, path) ==
    [definitionsByType |->
         [t \in Types |-> SelectNotOf(idx.definitionsByType[t], path)],
     definitionsByName |->
         [n \in Names |-> SelectNotOf(idx.definitionsByName[n], path)],
     definitionsByFile |-> [idx.definitionsByFile EXCEPT ![path] = <<>>],
     injectionsByFile  |-> [idx.injectionsByFile EXCEPT ![path] = <<>>]]

(***************************************************************************)
(* Queries.                                                                *)
(***************************************************************************)
\* a.endsWith('.' + b)
EndsWithDot(a, b) ==
    /\ Len(b) >= 1
    /\ Len(b) < Len(a)
    /\ SubSeq(a, Len(a) - Len(b) + 1, Len(a)) = b

isTypeMatch(type1, type2) ==
    \/ type1 = type2
    \/ EndsWithDot(type1, type2)
    \/ EndsWithDot(type2, type1)

RECURSIVE CollectByType(_, _, _)
CollectByType(idx, keys, typeName) ==
    IF keys = <<>> THEN <<>>
    ELSE (IF isTypeMatch(Head(keys), typeName)
          THEN idx.definitionsByType[Head(keys)] ELSE <<>>)
         \o CollectByType(idx, Tail(keys), typeName)

\* byType
findDefinitionsByType(idx, typeName) == CollectByType(idx, TypeOrder, typeName)

\* byName: a sequence of at most one declaration.
findDefinitionByName(idx, name) ==
    IF name \in Names THEN idx.definitionsByName[name] ELSE <<>>

\* useSitesOf
getInjectionPoints(idx, path) == idx.injectionsByFile[path]

(***************************************************************************)
(* QualifierMatcher, match scores, candidates.                             *)
(***************************************************************************)
matchesQualifier(bean, qualifier) == qualifier \in bean.qualifiers

RECURSIVE filterByQualifier(_, _)
filterByQualifier(beans, qualifier) ==
    IF beans = <<>> THEN <<>>
    ELSE (IF matchesQualifier(Head(beans), qualifier)
          THEN <<Head(beans)>> ELSE <<>>)
         \o filterByQualifier(Tail(beans), qualifier)

getMatchScore_QualifierAsName(reason) ==
    CASE reason = "EXACT_QUALIFIER" -> 90
      [] reason = "EXACT_NAME" -> 90
      [] reason = "PRIMARY_BEAN" -> 80
      [] reason = "TYPE_MATCH" -> 70
      [] reason = "SUBTYPE_MATCH" -> 60
      [] OTHER -> 0

getMatchScore_NameAsType(reason) ==
    CASE reason = "EXACT_QUALIFIER" -> 100
      [] reason = "EXACT_NAME" -> 70
      [] reason = "PRIMARY_BEAN" -> 80
      [] reason = "TYPE_MATCH" -> 70
      [] reason = "SUBTYPE_MATCH" -> 60
      [] OTHER -> 0

getMatchScore_PrimaryAsType(reason) ==
    CASE reason = "EXACT_QUALIFIER" -> 100
      [] reason = "EXACT_NAME" -> 90
      [] reason = "PRIMARY_BEAN" -> 70
      [] reason = "TYPE_MATCH" -> 70
      [] reason = "SUBTYPE_MATCH" -> 60
      [] OTHER -> 0

getMatchScore_TypeAsSubtype(reason) ==
    CASE reason = "EXACT_QUALIFIER" -> 100
      [] reason = "EXACT_NAME" -> 90
      [] reason = "PRIMARY_BEAN" -> 80
      [] reason = "TYPE_MATCH" -> 60
      [] reason = "SUBTYPE_MATCH" -> 60
      [] OTHER -> 0

getMatchScore(reason) ==
    CASE reason = "EXACT_QUALIFIER" -> 100
      [] reason = "EXACT_NAME" -> 90
      [] reason = "PRIMARY_BEAN" -> 80
      [] reason = "TYPE_MATCH" -> 70
      [] reason = "SUBTYPE_MATCH" -> 60
      [] OTHER -> 0

\* BeanCandidate.create scoring every candidate as a subtype match, whatever
\* its match reason.
CreateCandidate_SubtypeScore(bean, matchReason) ==
    [beanDefinition |-> bean,
     matchScore |-> getMatchScore("SUBTYPE_MATCH"),
     matchReason |-> matchReason]

\* BeanCandidate.create (the display strings are left out).
CreateCandidate(bean, matchReason) ==
    [beanDefinition |-> bean,
     matchScore |-> getMatchScore(matchReason),
     matchReason |-> matchReason]

RECURSIVE CreateAll(_, _)
CreateAll(beans, matchReason) ==
    IF beans = <<>> THEN <<>>
    ELSE <<CreateCandidate(Head(beans), matchReason)>>
             \o CreateAll(Tail(beans), matchReason)

RECURSIVE InsertByScore(_, _)
\* c goes behind every candidate whose score is at least its own (stable).
InsertByScore(sorted, c) ==
    IF sorted = <<>> THEN <<c>>
    ELSE IF Head(sorted).matchScore >= c.matchScore
         THEN <<Head(sorted)>> \o InsertByScore(Tail(sorted), c)
         ELSE <<c>> \o sorted

RECURSIVE SortFrom(_, _)
SortFrom(sorted, rest) ==
    IF rest = <<>> THEN sorted
    ELSE SortFrom(InsertByScore(sorted, Head(rest)), Tail(rest))

\* BeanCandidate.sortByScore: a stable sort, highest score first.
sortByScore(candidates) == SortFrom(<<>>, candidates)

RECURSIVE SelectPrimary(_)
SelectPrimary(beans) ==
    IF beans = <<>> THEN <<>>
    ELSE (IF Head(beans).isPrimary THEN <<Head(beans)>> ELSE <<>>)
         \o SelectPrimary(Tail(beans))

(***************************************************************************)
(* The resolver cascade (BeanResolver.resolve delegating to                *)
(* BeanIndex.findCandidates): qualifier, then explicit name, then primary, *)
(* then type.  A step that finds nothing hands over to the next one.       *)
(***************************************************************************)
TypeStep(idx, injection) ==
    LET byType == findDefinitionsByType(idx, injection.beanType)
        primaryBeans == SelectPrimary(byType)
    IN  IF Len(primaryBeans) = 1
        THEN <<CreateCandidate(primaryBeans[1], "PRIMARY_BEAN")>>
        ELSE sortByScore(CreateAll(byType, "TYPE_MATCH"))

NameStep(idx, injection) ==
    LET byName == findDefinitionByName(idx, injection.beanName)
    IN  IF injection.beanName # "" /\ byName # <<>>
           /\ isTypeMatch(byName[1].type, injection.beanType)
        THEN <<CreateCandidate(byName[1], "EXACT_NAME")>>
        ELSE TypeStep(idx, injection)

findCandidates(idx, injection) ==
    LET byQualifier ==
            filterByQualifier(findDefinitionsByType(idx, injection.beanType),
                              injection.qualifier)
    IN  IF injection.qualifier # "" /\ byQualifier # <<>>
        THEN sortByScore(CreateAll(byQualifier, "EXACT_QUALIFIER"))
        ELSE NameStep(idx, injection)

resolve(injection, idx) == findCandidates(idx, injection)

\* The use-sites the navigate command is invoked with.
QueryInjections ==
    {Injection(t, q, n, "A.java", "x") :
        t \in Types, q \in {""} \cup QualifierValues, n \in {""} \cup Names}

RECURSIVE SelectOf(_, _)
\* The entries of s that belong to file path.
SelectOf(s, path) ==
    IF s = <<>> THEN <<>>
    ELSE (IF Head(s).file = path THEN <<Head(s)>> ELSE <<>>)
         \o SelectOf(Tail(s), path)

RECURSIVE Concat(_, _)
\* The values of map m under the keys listed in keys, one after the other.
Concat(m, keys) ==
    IF keys = <<>> THEN <<>> ELSE m[Head(keys)] \o Concat(m, Tail(keys))

\* What the type view holds of file f: byType over every key.
ByTypeOf(idx, f) == SelectOf(Concat(idx.definitionsByType, TypeOrder), f)

\* The names under which the name view returns a declaration of file f.
ByNameOf(idx, f) ==
    {n \in Names : findDefinitionByName(idx, n) # <<>>
                   /\ findDefinitionByName(idx, n)[1].file = f}

(***************************************************************************)
(* BeanIndexer.                                                            *)
(***************************************************************************)
\* updateFile up to its await: the old entries of the file are removed.
updateFile_removeOld_Skip(idx, path) == idx

updateFile_removeOld(idx, path) == removeFileEntries(idx, path)

\* BeanIndexer.removeFile
removeFile_WrongPath(idx, path) == idx

removeFile(idx, path) == removeFileEntries(idx, path)

\* updateFile after its await: the extraction result is added; an exception
\* raised by the extraction is caught and nothing is added.
updateFile_addResult(idx, result) ==
    IF result.raised THEN idx
    ELSE LET withBeans == IF Len(result.definitions) > 0
                          THEN addBeans(idx, result.definitions) ELSE idx
         IN  IF Len(result.injectionPoints) > 0
             THEN addInjections(withBeans, result.injectionPoints)
             ELSE withBeans

\* The persisted payload: {version, definitions, injections}.
IndexVersion == "1.0.0"

NoPayload == [version |-> "", definitions |-> <<>>, injections |-> <<>>]

GoodPayload ==
    [version |-> IndexVersion,
     definitions |-> <<Bean("pay", TPayQ, "A.java", {"q1"}, FALSE),
                       Bean("alt", TPay, "B.java", {}, TRUE)>>,
     injections |-> <<Injection(TPay, "q1", "pay", "A.java", "p")>>]

StalePayload == [GoodPayload EXCEPT !.version = "0.9.0"]

StoredPayloads == {NoPayload, GoodPayload, StalePayload}

\* Payloads saved by earlier sessions of other projects: two primary-marked
\* declarations of matching types; a same-named type of another package.
TwoPrimaryPayload ==
    [version |-> IndexVersion,
     definitions |-> <<Bean("pay", TPay, "A.java", {}, TRUE),
                       Bean("alt", TPayQ, "B.java", {}, TRUE)>>,
     injections |-> <<>>]

ForeignPayload ==
    [version |-> IndexVersion,
     definitions |-> <<Bean("pay", TPayQ, "A.java", {}, FALSE),
                       Bean("alt", TPayY, "B.java", {}, FALSE)>>,
     injections |-> <<>>]

ResolvePayloads == StoredPayloads \cup {TwoPrimaryPayload, ForeignPayload}

\* BeanIndex.deserialize: the index is rebuilt from the payload.
deserialize(data) ==
    addInjections(addBeans(EmptyIndex, data.definitions), data.injections)

\* BeanIndex.deserialize rejects a payload of another version: it throws
\* before it touches the index.
deserializeRejects(data) == data.version # IndexVersion

loadFromPersistentStorage_LoadedOnError(idx, data) ==
    IF data = NoPayload
    THEN [loaded |-> FALSE, index |-> idx]
    ELSE [loaded |-> TRUE,
          index |-> IF deserializeRejects(data) THEN idx
                    ELSE deserialize(data)]

\* loadFromPersistentStorage: nothing stored is a miss; a stored payload is
\* handed to deserialize, and an exception of deserialize is caught and
\* reported as a miss.
loadFromPersistentStorage(idx, data) ==
    IF data = NoPayload
    THEN [loaded |-> FALSE, index |-> idx]
    ELSE IF deserializeRejects(data)
         THEN [loaded |-> FALSE, index |-> idx]
         ELSE [loaded |-> TRUE, index |-> deserialize(data)]

\* loadFromPersistentStorage reports whether a payload was applied.
CacheLoaded(data) == loadFromPersistentStorage(EmptyIndex, data).loaded

(***************************************************************************)
(* State.                                                                  *)
(*   index  : the BeanIndex                                                *)
(*   phase  : "init" before activate() ran, "active" afterwards            *)
(*   procs  : the two asynchronous writers: the background build started   *)
(*            by activate() and the command/API caller.  pc is the await   *)
(*            the writer is suspended at.  old and clean are history: the  *)
(*            file's entries when its updateFile began, and whether no     *)
(*            other updateFile of the same file overlapped it.             *)
(*   lastOp : the handler that ran last and what it returned               *)
(***************************************************************************)
VARIABLES index, phase, procs, lastOp

vars == <<index, phase, procs, lastOp>>

Procs == {"activate", "command"}

EmptyFacts == [definitions |-> <<>>, injectionPoints |-> <<>>]

FileFacts(idx, f) ==
    [definitions |-> idx.definitionsByFile[f],
     injectionPoints |-> idx.injectionsByFile[f]]

IdleProc ==
    [pc |-> "idle", todo |-> <<>>, file |-> "", src |-> NoTree,
     old |-> EmptyFacts, clean |-> TRUE]

NoOp == [op |-> "none"]

InProgressOn(q, f) ==
    procs[q].pc \in {"reading", "parsing"} /\ procs[q].file = f

\* What findAllJavaFiles can return: the files that exist, in some order.
Listings ==
    UNION {{s \in [1..n -> Files] : \A i, j \in 1..n : i # j => s[i] # s[j]} :
              n \in 0..Cardinality(Files)}

Init ==
    /\ index = EmptyIndex
    /\ phase = "init"
    /\ procs = [p \in Procs |-> IdleProc]
    /\ lastOp = NoOp

\* The synchronous head of updateFile(f) run by writer p.
BeginUpdate(p, f, rest) ==
    /\ index' = updateFile_removeOld(index, f)
    /\ procs' = [q \in Procs |->
                    IF q = p
                    THEN [pc |-> "reading", todo |-> rest, file |-> f,
                          src |-> NoTree, old |-> FileFacts(index, f),
                          clean |-> \A r \in Procs \ {p} : ~InProgressOn(r, f)]
                    ELSE IF InProgressOn(q, f)
                         THEN [procs[q] EXCEPT !.clean = FALSE]
                         ELSE procs[q]]
    /\ lastOp' = [op |-> "begin", proc |-> p, file |-> f]

\* activate(): the cached index is loaded, or the background build starts.
Activate(data) ==
    /\ phase = "init"
    /\ phase' = "active"
    /\ LET cache == loadFromPersistentStorage(index, data)
       IN  /\ index' = cache.index
           /\ procs' = IF cache.loaded THEN procs
                       ELSE [procs EXCEPT !["activate"].pc = "listing"]
           /\ lastOp' = [op |-> "activate", data |-> data,
                         loaded |-> cache.loaded]

\* The rebuildIndex command: buildFullIndex up to await findAllJavaFiles().
RebuildIndex ==
    /\ phase = "active"
    /\ procs["command"].pc = "idle"
    /\ procs' = [procs EXCEPT !["command"].pc = "listing"]
    /\ lastOp' = NoOp
    /\ UNCHANGED <<index, phase>>

\* buildFullIndex once the files are listed: the loop starts, or ends at once.
FilesListed(p) ==
    /\ procs[p].pc = "listing"
    /\ \E s \in Listings :
          IF s = <<>>
          THEN /\ procs' = [procs EXCEPT ![p] = IdleProc]
               /\ lastOp' = [op |-> "built", proc |-> p]
               /\ UNCHANGED index
          ELSE BeginUpdate(p, Head(s), Tail(s))
    /\ UNCHANGED phase

\* buildFullIndex between two files: updateFile of the next file starts.
NextFile(p) ==
    /\ procs[p].pc = "loop"
    /\ BeginUpdate(p, Head(procs[p].todo), Tail(procs[p].todo))
    /\ UNCHANGED phase

\* A direct call of updateFile(f).
UpdateFile(f) ==
    /\ phase = "active"
    /\ procs["command"].pc = "idle"
    /\ BeginUpdate("command", f, <<>>)
    /\ UNCHANGED phase

\* The document is opened (await openTextDocument): src is what the file holds.
FileRead(p, src) ==
    /\ procs[p].pc = "reading"
    /\ procs' = [procs EXCEPT ![p].pc = "parsing", ![p].src = src]
    /\ lastOp' = NoOp
    /\ UNCHANGED <<index, phase>>

\* The rest of updateFile: parse, extract, add to the index.
Commit(p) ==
    /\ procs[p].pc = "parsing"
    /\ LET f == procs[p].file
           cst == getCST(procs[p].src)
           result == extractFromFile(f, cst)
       IN  /\ index' = updateFile_addResult(index, result)
           /\ lastOp' = [op |-> "commit", proc |-> p, file |-> f,
                         src |-> procs[p].src, cst |-> cst, result |-> result,
                         old |-> procs[p].old, clean |-> procs[p].clean]
    /\ procs' = [procs EXCEPT ![p] =
                    IF procs[p].todo = <<>> THEN IdleProc
                    ELSE [IdleProc EXCEPT !.pc = "loop",
                                          !.todo = procs[p].todo]]
    /\ UNCHANGED phase

\* A direct call of removeFile(f); it is synchronous.
RemoveFile(f) ==
    /\ phase = "active"
    /\ index' = removeFile(index, f)
    /\ lastOp' = [op |-> "remove", file |-> f]
    /\ UNCHANGED <<phase, procs>>

\* What the navigateToBean handler does with the candidates: a warning when
\* there is none, a quick pick when there are several, else the navigation.
\* Reading candidates[0].beanDefinition of an empty list throws, and every
\* exception ends in the handler's catch, which shows the error message.
navigateOutcome_NoEmptyCheck(candidates) ==
    IF Len(candidates) > 1 THEN "quickPick"
    ELSE IF candidates = <<>> THEN "error"
    ELSE "navigate"

navigateOutcome(candidates) ==
    IF candidates = <<>> THEN "notFound"
    ELSE IF Len(candidates) > 1 THEN "quickPick"
    ELSE "navigate"

RECURSIVE Reverse(_)
Reverse(s) == IF s = <<>> THEN <<>> ELSE Append(Reverse(Tail(s)), Head(s))

\* The index after resolve ran on it.  The lists the views hold are only read:
\* filter and map build new arrays and sortByScore sorts a copy
\* ([...candidates].sort), so the views are left as they were.  Sorting the
\* list of the type view itself would reorder the view.
indexAfterResolve_SortInPlace(idx, injection) ==
    [idx EXCEPT !.definitionsByType =
        [t \in Types |->
            IF isTypeMatch(t, injection.beanType) THEN Reverse(@[t])
            ELSE @[t]]]

indexAfterResolve(idx, injection) == idx

\* The navigateToBean command: resolve against the index as it is now.
NavigateToBean(injection) ==
    /\ phase = "active"
    /\ lastOp' = [op |-> "resolve", injection |-> injection,
                  candidates |-> resolve(injection, index),
                  outcome |-> navigateOutcome(resolve(injection, index))]
    /\ index' = indexAfterResolve(index, injection)
    /\ UNCHANGED <<phase, procs>>

\* A caller queries byType(typeName).
FindByType(typeName) ==
    /\ phase = "active"
    /\ lastOp' = [op |-> "byType", type |-> typeName,
                  result |-> findDefinitionsByType(index, typeName)]
    /\ UNCHANGED <<index, phase, procs>>

\* A caller queries byName(name).
FindByName(name) ==
    /\ phase = "active"
    /\ lastOp' = [op |-> "byName", name |-> name,
                  result |-> findDefinitionByName(index, name)]
    /\ UNCHANGED <<index, phase, procs>>

\* A reader queries the entries of file f (byType, useSitesOf).
ReadFileEntries(f) ==
    /\ phase = "active"
    /\ lastOp' = [op |-> "read", file |-> f,
                  definitions |-> ByTypeOf(index, f),
                  injectionPoints |-> getInjectionPoints(index, f)]
    /\ UNCHANGED <<index, phase, procs>>

\* The use-sites the command is invoked with while the writers run.
NavInjections ==
    {Injection(TPay, "", "", "A.java", "x"),
     Injection(TPayQ, "q1", "pay", "A.java", "x")}

Next ==
    \/ \E data \in StoredPayloads : Activate(data)
    \/ RebuildIndex
    \/ \E p \in Procs : FilesListed(p)
    \/ \E p \in Procs : NextFile(p)
    \/ \E f \in Files : UpdateFile(f)
    \/ \E p \in Procs : \E src \in SourcesOf(procs[p].file) : FileRead(p, src)
    \/ \E p \in Procs : Commit(p)
    \/ \E f \in Files : RemoveFile(f)
    \/ \E injection \in NavInjections : NavigateToBean(injection)
    \/ \E f \in Files : ReadFileEntries(f)

Spec == Init /\ [][Next]_vars

(***************************************************************************)
(* Vocabulary of the properties.                                           *)
(***************************************************************************)
Range(s) == {s[i] : i \in 1..Len(s)}

Count(s, x) == Cardinality({i \in 1..Len(s) : s[i] = x})

\* Two sequences hold the same entries the same number of times.
SameBag(s, t) ==
    \A x \in Range(s) \cup Range(t) : Count(s, x) = Count(t, x)

NoDuplicates(s) == \A i, j \in 1..Len(s) : i # j => s[i] # s[j]

FileOrder == <<"A.java", "B.java">>

AllIdle == \A p \in Procs : procs[p].pc = "idle"

\* Every declaration some view of the index holds.
IndexedBeans(idx) ==
    UNION {Range(idx.definitionsByFile[f]) : f \in Files}
        \cup UNION {Range(idx.definitionsByType[t]) : t \in Types}
        \cup UNION {Range(idx.definitionsByName[n]) : n \in Names}

\* The type view and the file view hold the same declarations, each under its
\* own type and file; what the name view returns is listed under its file.
ViewsAgree(idx) ==
    /\ SameBag(Concat(idx.definitionsByType, TypeOrder),
               Concat(idx.definitionsByFile, FileOrder))
    /\ \A t \in Types : \A b \in Range(idx.definitionsByType[t]) : b.type = t
    /\ \A f \in Files : \A b \in Range(idx.definitionsByFile[f]) : b.file = f
    /\ \A f \in Files : \A u \in Range(idx.injectionsByFile[f]) : u.file = f
    /\ \A n \in Names : \A b \in Range(idx.definitionsByName[n]) :
           b.name = n /\ b \in Range(idx.definitionsByFile[b.file])

\* The index holds exactly facts for file f: in the file views, in the type
\* view, and as far as the name view returns declarations of f.
ReflectsExactly(idx, f, facts) ==
    /\ idx.definitionsByFile[f] = facts.definitions
    /\ getInjectionPoints(idx, f) = facts.injectionPoints
    /\ SameBag(ByTypeOf(idx, f), facts.definitions)
    /\ ByNameOf(idx, f) = {b.name : b \in Range(facts.definitions)}
    /\ \A n \in ByNameOf(idx, f) :
           findDefinitionByName(idx, n)[1] \in Range(facts.definitions)

\* Nothing the four views hold for a file other than f changes in this step.
OthersUnchanged(f) ==
    \A g \in Files \ {f} :
        /\ index'.definitionsByFile[g] = index.definitionsByFile[g]
        /\ index'.injectionsByFile[g] = index.injectionsByFile[g]
        /\ ByTypeOf(index', g) = ByTypeOf(index, g)
        /\ \A n \in Names :
               (index.definitionsByName[n] # <<>>
                    /\ index.definitionsByName[n][1].file = g)
                 => index'.definitionsByName[n] = index.definitionsByName[n]

(***************************************************************************)
(* C1  Replace, not merge: when updateFile(f) completes and no other       *)
(* updateFile of f overlapped it, byType, byName and useSitesOf reflect    *)
(* exactly the new extraction result for f: every declaration and use-site *)
(* of it once, nothing of the entries f had before.                        *)
(***************************************************************************)
C1_ReplaceNotMerge ==
    (lastOp.op = "commit" /\ lastOp.clean)
        => ReflectsExactly(index, lastOp.file, lastOp.result)

\* f was indexed with D1 and then with a different, non-empty D2.
C1_Witness ==
    /\ lastOp.op = "commit"
    /\ lastOp.clean
    /\ lastOp.old.definitions # <<>>
    /\ lastOp.result.definitions # <<>>
    /\ lastOp.old.definitions # lastOp.result.definitions
    /\ lastOp.old.injectionPoints # lastOp.result.injectionPoints

(***************************************************************************)
(* C2  A read issued while file f is being re-indexed never observes the   *)
(* write in progress: for every updateFile of f that is under way, what    *)
(* the read returns for f is either the complete entries f had when that   *)
(* updateFile began or the complete result of its extraction.              *)
(***************************************************************************)
C2_ReadsNeverSeeWriteInProgress ==
    lastOp.op = "read" =>
        \A p \in Procs :
            InProgressOn(p, lastOp.file) =>
                \/ /\ SameBag(lastOp.definitions, procs[p].old.definitions)
                   /\ lastOp.injectionPoints = procs[p].old.injectionPoints
                \/ /\ procs[p].pc = "parsing"
                   /\ LET new == extractFromFile(procs[p].file,
                                                 getCST(procs[p].src))
                      IN  /\ SameBag(lastOp.definitions, new.definitions)
                          /\ lastOp.injectionPoints = new.injectionPoints

(***************************************************************************)
(* C3  Index mutations are serialized: once every writer has finished, the *)
(* index is what the operations applied one after the other would leave:   *)
(* each file holds the facts of one extraction of it (or nothing), and no  *)
(* declaration or use-site of a file is listed twice.                      *)
(***************************************************************************)
\* What one file can hold after operations applied one at a time.
SerialFacts(f) ==
    {EmptyFacts}
        \cup {[definitions |-> extractFromFile(f, getCST(src)).definitions,
               injectionPoints |->
                   extractFromFile(f, getCST(src)).injectionPoints] :
                 src \in SourcesOf(f)}
        \cup {[definitions |-> SelectOf(GoodPayload.definitions, f),
               injectionPoints |-> SelectOf(GoodPayload.injections, f)]}

C3_MutationsSerialized ==
    AllIdle =>
        \A f \in Files :
            /\ FileFacts(index, f) \in SerialFacts(f)
            /\ NoDuplicates(index.definitionsByFile[f])
            /\ NoDuplicates(ByTypeOf(index, f))
            /\ NoDuplicates(index.injectionsByFile[f])

(***************************************************************************)
(* C4  After completed operations the four views are mutually consistent:  *)
(* the type view and the file view hold the same declarations, and byName  *)
(* returns an indexed declaration named n whenever some indexed            *)
(* declaration is named n.                                                 *)
(***************************************************************************)
C4_ViewsMutuallyConsistent ==
    AllIdle =>
        /\ ViewsAgree(index)
        /\ \A b \in IndexedBeans(index) :
               /\ findDefinitionByName(index, b.name) # <<>>
               /\ findDefinitionByName(index, b.name)[1].name = b.name

(***************************************************************************)
(* C5  removeFile(f) removes every declaration and use-site of f from the  *)
(* four views and leaves what they hold for every other file unchanged;    *)
(* and a declaration or use-site of a file leaves the index only in a step *)
(* that is removeFile of that file or the start of its re-extraction.      *)
(***************************************************************************)
\* Something file g had in the index before this step is in no view after it.
LeavesIndex(g) ==
    \/ \E b \in IndexedBeans(index) :
           b.file = g /\ b \notin IndexedBeans(index')
    \/ \E u \in Range(index.injectionsByFile[g]) :
           u \notin Range(index'.injectionsByFile[g])

C5_RemoveFileFrame ==
    [][/\ lastOp'.op = "remove" =>
              /\ ReflectsExactly(index', lastOp'.file, EmptyFacts)
              /\ OthersUnchanged(lastOp'.file)
       /\ index' # index =>
              \A g \in Files :
                  LeavesIndex(g) =>
                      lastOp'.op \in {"remove", "begin"} /\ lastOp'.file = g
      ]_vars

\* removeFile(f) ran on a file that had entries while another file had some too.
C5_Witness ==
    /\ lastOp.op = "remove"
    /\ index.definitionsByFile[lastOp.file] = <<>>
    /\ \E g \in Files \ {lastOp.file} :
           /\ index.definitionsByFile[g] # <<>>
           /\ index.injectionsByFile[g] # <<>>
           /\ findDefinitionByName(index, "pay") # <<>>

(***************************************************************************)
(* C6  Failure never corrupts the index: when the extraction of f yields   *)
(* no tree or throws part-way, the step that ends updateFile(f) leaves the *)
(* views agreeing, leaves an index that differs from the one a complete    *)
(* extraction of the same source would leave only by missing entries, and  *)
(* leaves the entries of the other files as they are.                      *)
(***************************************************************************)
\* The facts written in a source of file f.
FactsIn(f, src) ==
    IF src.kind \in {"ok", "partial"}
    THEN [definitions |-> SourceFacts(f, src.ver).definitions,
          injectionPoints |-> SourceFacts(f, src.ver).injectionPoints,
          raised |-> FALSE]
    ELSE EmptyResult

FailedCommit(op) ==
    op.op = "commit" /\ (op.cst = NoTree \/ op.src.kind = "partial")

SubBag(s, t) == \A x \in Range(s) : Count(s, x) <= Count(t, x)

\* idx differs from correct only by entries it lacks.
MissingOnly(idx, correct) ==
    /\ \A f \in Files :
           /\ SubBag(idx.definitionsByFile[f], correct.definitionsByFile[f])
           /\ SubBag(idx.injectionsByFile[f], correct.injectionsByFile[f])
    /\ \A t \in Types :
           SubBag(idx.definitionsByType[t], correct.definitionsByType[t])
    /\ \A n \in Names :
           \/ idx.definitionsByName[n] = <<>>
           \/ idx.definitionsByName[n] = correct.definitionsByName[n]

C6_FailureNeverCorrupts ==
    [][FailedCommit(lastOp') =>
          LET f == lastOp'.file
              correct == updateFile_addResult(index, FactsIn(f, lastOp'.src))
          IN  /\ ViewsAgree(index) => ViewsAgree(index')
              /\ MissingOnly(index', correct)
              /\ \A g \in Files \ {f} :
                     /\ index'.definitionsByFile[g] = index.definitionsByFile[g]
                     /\ index'.injectionsByFile[g] = index.injectionsByFile[g]
                     /\ ByTypeOf(index', g) = ByTypeOf(index, g)
                     /\ \A n \in ByNameOf(index, g) :
                            index'.definitionsByName[n]
                                = correct.definitionsByName[n]
      ]_vars

\* The extraction of an indexed file threw part-way while the other file had
\* entries.
C6_Witness ==
    /\ lastOp.op = "commit"
    /\ lastOp.src.kind = "partial"
    /\ lastOp.old.definitions # <<>>
    /\ \E g \in Files \ {lastOp.file} : index.definitionsByFile[g] # <<>>

(***************************************************************************)
(* C7  updateFile keeps the old data on a parse failure: when an indexed   *)
(* file cannot be parsed by a later updateFile, the declarations and       *)
(* use-sites it had are still returned afterwards.                         *)
(***************************************************************************)
C7_KeepsOldDataOnParseFailure ==
    (lastOp.op = "commit" /\ lastOp.src.kind = "malformed" /\ lastOp.clean)
        => /\ \A b \in Range(lastOp.old.definitions) :
                  b \in Range(ByTypeOf(index, lastOp.file))
           /\ \A u \in Range(lastOp.old.injectionPoints) :
                  u \in Range(getInjectionPoints(index, lastOp.file))

(***************************************************************************)
(* C8  When the parser yields no tree (the file cannot be read, is empty   *)
(* or does not parse), the extraction returns no declaration and no        *)
(* use-site and raises nothing to its caller.                              *)
(***************************************************************************)
C8_NoTreeYieldsNothing ==
    (lastOp.op = "commit"
        /\ lastOp.src.kind \in {"deleted", "empty", "malformed"})
        => /\ lastOp.cst = NoTree
           /\ lastOp.result.definitions = <<>>
           /\ lastOp.result.injectionPoints = <<>>
           /\ ~lastOp.result.raised

\* An extraction ran on a file that could not be read.
C8_Witness ==
    /\ lastOp.op = "commit"
    /\ lastOp.src.kind = "deleted"
    /\ lastOp.result = EmptyResult

(***************************************************************************)
(* Resolution against an index built by one writer at a time: the cache    *)
(* load at activation, single updateFile and removeFile calls, and the     *)
(* navigate command invoked with every use-site of QueryInjections.        *)
(***************************************************************************)
NextResolve ==
    \/ \E data \in ResolvePayloads : Activate(data)
    \/ \E f \in Files : UpdateFile(f)
    \/ \E src \in SourcesOf(procs["command"].file) : FileRead("command", src)
    \/ Commit("command")
    \/ \E f \in Files : RemoveFile(f)
    \/ \E injection \in QueryInjections : NavigateToBean(injection)
    \/ \E typeName \in QueryTypes : FindByType(typeName)
    \/ \E name \in Names \cup {"none"} : FindByName(name)

SpecResolve == Init /\ [][NextResolve]_vars

(***************************************************************************)
(* C9  Qualifier precedence: for a use-site that has both an explicit      *)
(* qualifier and an explicit declared name, resolve returns the same       *)
(* candidate list as for the same use-site with the name cleared, also     *)
(* when no declaration carries the qualifier.                              *)
(***************************************************************************)
C9_QualifierPrecedence ==
    (lastOp.op = "resolve"
        /\ lastOp.injection.qualifier # ""
        /\ lastOp.injection.beanName # "")
        => lastOp.candidates
               = resolve([lastOp.injection EXCEPT !.beanName = ""], index)

(***************************************************************************)
(* C10  Qualifier step: when the use-site has an explicit qualifier q and  *)
(* at least one indexed declaration of a matching type has q among its     *)
(* qualifiers, resolve returns exactly those declarations, each once and   *)
(* each with score 100, whatever unqualified or primary-marked             *)
(* declarations of the same type exist.                                    *)
(***************************************************************************)
\* The declarations listed under the indexed files whose type matches the
\* use-site and whose qualifiers contain its qualifier.
QualifiedTypeMatches(idx, injection) ==
    {b \in UNION {Range(idx.definitionsByFile[f]) : f \in Files} :
        /\ isTypeMatch(b.type, injection.beanType)
        /\ injection.qualifier \in b.qualifiers}

C10_QualifierStep ==
    (lastOp.op = "resolve"
        /\ lastOp.injection.qualifier # ""
        /\ QualifiedTypeMatches(index, lastOp.injection) # {})
        => /\ {c.beanDefinition : c \in Range(lastOp.candidates)}
                  = QualifiedTypeMatches(index, lastOp.injection)
           /\ Len(lastOp.candidates)
                  = Cardinality(QualifiedTypeMatches(index, lastOp.injection))
           /\ \A c \in Range(lastOp.candidates) :
                  c.matchScore = 100 /\ c.matchReason = "EXACT_QUALIFIER"

\* A qualified use-site was resolved while a primary-marked declaration of a
\* matching type that lacks the qualifier was indexed.
C10_Witness ==
    /\ lastOp.op = "resolve"
    /\ lastOp.injection.qualifier = "q1"
    /\ lastOp.injection.beanName # ""
    /\ Len(lastOp.candidates) = 1
    /\ lastOp.candidates[1].matchScore = 100
    /\ \E b \in IndexedBeans(index) :
           /\ b.isPrimary
           /\ isTypeMatch(b.type, lastOp.injection.beanType)
           /\ "q1" \notin b.qualifiers

PrimaryTypeMatches(idx, injection) ==
    LET byType == findDefinitionsByType(idx, injection.beanType)
    IN  {i \in 1..Len(byType) : byType[i].isPrimary}

\* The declarations of a candidate list, in its order.
BeansOf(candidates) ==
    [i \in 1..Len(candidates) |-> candidates[i].beanDefinition]

(***************************************************************************)
(* C12  Primary selection: for a use-site with no qualifier and no         *)
(* explicit name, if exactly one of the declarations byType returns for    *)
(* the requested type is primary-marked, resolve returns exactly that      *)
(* declaration with score 80 and no other candidate.                       *)
(***************************************************************************)
C12_PrimarySelection ==
    (lastOp.op = "resolve"
        /\ lastOp.injection.qualifier = ""
        /\ lastOp.injection.beanName = ""
        /\ Cardinality(PrimaryTypeMatches(index, lastOp.injection)) = 1)
        => LET byType ==
                   findDefinitionsByType(index, lastOp.injection.beanType)
               i == CHOOSE j \in PrimaryTypeMatches(index, lastOp.injection) :
                        TRUE
           IN  /\ Len(lastOp.candidates) = 1
               /\ lastOp.candidates[1].beanDefinition = byType[i]
               /\ lastOp.candidates[1].matchScore = 80

\* The one primary declaration was returned while a non-primary declaration of
\* a matching type was indexed.
C12_Witness ==
    /\ lastOp.op = "resolve"
    /\ lastOp.injection.qualifier = ""
    /\ lastOp.injection.beanName = ""
    /\ Len(lastOp.candidates) = 1
    /\ lastOp.candidates[1].beanDefinition.isPrimary
    /\ lastOp.candidates[1].matchScore = 80
    /\ \E b \in IndexedBeans(index) :
           ~b.isPrimary /\ isTypeMatch(b.type, lastOp.injection.beanType)

NameOrder == <<"alt", "pay">>

NameRank(n) == CHOOSE i \in 1..Len(NameOrder) : NameOrder[i] = n

C14_ResultOrdering ==
    lastOp.op = "resolve" =>
        \A i, j \in 1..Len(lastOp.candidates) :
            i < j =>
                \/ lastOp.candidates[i].matchScore
                       > lastOp.candidates[j].matchScore
                \/ /\ lastOp.candidates[i].matchScore
                          = lastOp.candidates[j].matchScore
                   /\ NameRank(lastOp.candidates[i].beanDefinition.name)
                          <= NameRank(lastOp.candidates[j].beanDefinition.name)

(***************************************************************************)
(* C15  Query-miss is not an error: when nothing matches (also on an empty *)
(* index) byType returns an empty list, byName returns nothing and resolve *)
(* returns an empty list, and the navigate command then reports that no    *)
(* bean was found instead of failing.                                      *)
(***************************************************************************)
\* No declaration listed under an indexed file has a type matching typeName.
NoTypeMatch(idx, typeName) ==
    \A f \in Files : \A b \in Range(idx.definitionsByFile[f]) :
        ~isTypeMatch(b.type, typeName)

C15_QueryMissIsNotAnError ==
    /\ (lastOp.op = "resolve"
           /\ NoTypeMatch(index, lastOp.injection.beanType))
          => lastOp.candidates = <<>>
    /\ (lastOp.op = "resolve" /\ lastOp.candidates = <<>>)
          => lastOp.outcome = "notFound"
    /\ lastOp.op = "resolve" => lastOp.outcome # "error"
    /\ (lastOp.op = "byType" /\ NoTypeMatch(index, lastOp.type))
          => lastOp.result = <<>>
    /\ (lastOp.op = "byName"
           /\ \A f \in Files : \A b \in Range(index.definitionsByFile[f]) :
                  b.name # lastOp.name)
          => lastOp.result = <<>>

\* A named use-site found no declaration of its type in a non-empty index.
C15_Witness ==
    /\ lastOp.op = "resolve"
    /\ lastOp.injection.beanName # ""
    /\ index.definitionsByName[lastOp.injection.beanName] # <<>>
    /\ lastOp.candidates = <<>>
    /\ lastOp.outcome = "notFound"

C17_TypeMatchSymmetry ==
    (lastOp.op = "byType"
        /\ lastOp.type \in {TPayQ, TPay}
        /\ \E f \in Files : \E b \in Range(index.definitionsByFile[f]) :
               b.type = TPayQ)
        => /\ Range(lastOp.result)
                  = Range(findDefinitionsByType(
                              index, IF lastOp.type = TPay THEN TPayQ ELSE TPay))
           /\ Range(findDefinitionsByType(index, TPayQ))
                  = Range(findDefinitionsByType(index, TPay))

(***************************************************************************)
(* C18  byType match rule: a declaration of declared type t is returned by *)
(* byType(q) iff t and q are identical, or one of them is a dotted name    *)
(* whose final segment is the whole of the other; a partially qualified    *)
(* query such as "x.Pay" does not match "com.x.Pay".                       *)
(***************************************************************************)
\* The match rule as stated: identical, or the final segment of a dotted name
\* equals the other, undotted, name.
FinalSegmentMatch(t, q) ==
    \/ t = q
    \/ Len(t) > 1 /\ Len(q) = 1 /\ t[Len(t)] = q[1]
    \/ Len(q) > 1 /\ Len(t) = 1 /\ q[Len(q)] = t[1]

C18_ByTypeMatchRule ==
    lastOp.op = "byType" =>
        \A f \in Files : \A b \in Range(index.definitionsByFile[f]) :
            b \in Range(lastOp.result) <=> FinalSegmentMatch(b.type, lastOp.type)

(***************************************************************************)
(* LombokInjectionExtractor: the use-sites of the constructor a            *)
(* constructor-generating annotation synthesizes.                          *)
(* A field declaration of the source is (name, type, line, not-null        *)
(* marker, final, static, qualifier); name "" is a declarator the          *)
(* extractor finds no identifier in.                                       *)
(***************************************************************************)
FieldDecl(n, t, line, nonNull, final, static, q) ==
    [name |-> n, type |-> t, line |-> line, hasNonNull |-> nonNull,
     isFinal |-> final, isStatic |-> static, qualifier |-> q]

FieldA == FieldDecl("a", TPay, 1, FALSE, TRUE, FALSE, "")
FieldB == FieldDecl("b", TPayQ, 2, TRUE, FALSE, FALSE, "q1")
FieldC == FieldDecl("c", TPay, 3, FALSE, FALSE, FALSE, "")
FieldD == FieldDecl("d", TPayY, 4, TRUE, TRUE, FALSE, "")
FieldS == FieldDecl("s", TPay, 5, FALSE, TRUE, TRUE, "")

FieldPool == {FieldA, FieldB, FieldC, FieldD, FieldS}

\* The field declarations of a class body, in source order.
ClassBodies ==
    UNION {{body \in [1..n -> FieldPool] :
                \A i, j \in 1..n : i # j => body[i] # body[j]} :
           n \in 0..MaxFields}

LombokConstructorTypes == {"required-args", "all-args"}

LombokAnnotations ==
    {[type |-> t, hasAutowired |-> TRUE] : t \in LombokConstructorTypes}

\* LombokFieldInfo of one declaration: the modifiers are searched for the
\* NonNull annotation, the final keyword and a Qualifier; no other modifier
\* is looked at.
FieldInfo(decl) ==
    [name |-> decl.name, type |-> decl.type, location |-> decl.line,
     hasNonNull |-> decl.hasNonNull, isFinal |-> decl.isFinal,
     qualifier |-> decl.qualifier]

\* extractFieldInfo: one entry per field declaration that has a name and a type.
RECURSIVE extractFieldInfo(_)
extractFieldInfo(body) ==
    IF body = <<>> THEN <<>>
    ELSE (IF Head(body).name # "" /\ Head(body).type # <<>>
          THEN <<FieldInfo(Head(body))>> ELSE <<>>)
         \o extractFieldInfo(Tail(body))

RECURSIVE SelectEligible(_)
SelectEligible(fields) ==
    IF fields = <<>> THEN <<>>
    ELSE (IF Head(fields).hasNonNull \/ Head(fields).isFinal
          THEN <<Head(fields)>> ELSE <<>>)
         \o SelectEligible(Tail(fields))

RECURSIVE SelectBoth(_)
SelectBoth(fields) ==
    IF fields = <<>> THEN <<>>
    ELSE (IF Head(fields).hasNonNull /\ Head(fields).isFinal
          THEN <<Head(fields)>> ELSE <<>>)
         \o SelectBoth(Tail(fields))

filterFields_MarkerAndFinal(fields, lombokAnnotation) ==
    IF lombokAnnotation.type = "all-args" THEN fields
    ELSE IF lombokAnnotation.type = "required-args" THEN SelectBoth(fields)
    ELSE <<>>

filterFields_AlwaysRequired(fields, lombokAnnotation) ==
    IF lombokAnnotation.type \in {"all-args", "required-args"}
    THEN SelectEligible(fields)
    ELSE <<>>

filterFields(fields, lombokAnnotation) ==
    IF lombokAnnotation.type = "all-args" THEN fields
    ELSE IF lombokAnnotation.type = "required-args"
    THEN SelectEligible(fields)
    ELSE <<>>

convertToInjectionPoints_RequiredFromMarker(fields) ==
    [i \in 1..Len(fields) |->
        [injectionType |-> "LOMBOK_CONSTRUCTOR",
         beanType |-> fields[i].type,
         location |-> fields[i].location,
         qualifier |-> fields[i].qualifier,
         isRequired |-> fields[i].hasNonNull,
         fieldName |-> fields[i].name]]

convertToInjectionPoints(fields) ==
    [i \in 1..Len(fields) |->
        [injectionType |-> "LOMBOK_CONSTRUCTOR",
         beanType |-> fields[i].type,
         location |-> fields[i].location,
         qualifier |-> fields[i].qualifier,
         isRequired |-> TRUE,
         fieldName |-> fields[i].name]]

\* LombokInjectionExtractor.extract on the class body of a parsed file.
LombokExtract(body, lombokAnnotation) ==
    /\ LET allFields == extractFieldInfo(body)
           eligibleFields == filterFields(allFields, lombokAnnotation)
       IN  lastOp' = [op |-> "lombok", body |-> body,
                      annotation |-> lombokAnnotation,
                      allFields |-> allFields,
                      eligibleFields |-> eligibleFields,
                      injectionPoints |->
                          convertToInjectionPoints(eligibleFields)]
    /\ UNCHANGED <<index, phase, procs>>

NextLombok ==
    \E body \in ClassBodies : \E lombokAnnotation \in LombokAnnotations :
        LombokExtract(body, lombokAnnotation)

SpecLombok == Init /\ [][NextLombok]_vars

(***************************************************************************)
(* C19  Required-args filter: under a required-args descriptor the filter  *)
(* keeps a field iff it has the not-null marker or is final, in field      *)
(* order; for the fields a (final, no marker), b (not final, marker) and   *)
(* c (neither) the result is exactly a, b.                                 *)
(***************************************************************************)
C19_RequiredArgsFilter ==
    (lastOp.op = "lombok" /\ lastOp.annotation.type = "required-args")
        => LET fields == lastOp.allFields
               kept == lastOp.eligibleFields
               keep == {i \in 1..Len(fields) :
                           fields[i].hasNonNull \/ fields[i].isFinal}
           IN  /\ Range(kept) = {fields[i] : i \in keep}
               /\ Len(kept) = Cardinality(keep)
               /\ \A i, j \in 1..Len(kept) :
                      i < j => \E m, n \in 1..Len(fields) :
                                   m < n /\ fields[m] = kept[i]
                                         /\ fields[n] = kept[j]
               /\ lastOp.body = <<FieldA, FieldB, FieldC>>
                      => kept = <<FieldInfo(FieldA), FieldInfo(FieldB)>>

\* The three fields of the scenario were filtered under required-args.
C19_Witness ==
    /\ lastOp.op = "lombok"
    /\ lastOp.annotation.type = "required-args"
    /\ lastOp.body = <<FieldA, FieldB, FieldC>>
    /\ Len(lastOp.eligibleFields) = 2

(***************************************************************************)
(* C20  All-args, no filter: under an all-args descriptor the filter       *)
(* returns every extracted field unchanged, whatever its not-null marker   *)
(* and final modifier; for the fields a, b, c the result is a, b, c.       *)
(***************************************************************************)
C20_AllArgsNoFilter ==
    (lastOp.op = "lombok" /\ lastOp.annotation.type = "all-args")
        => /\ lastOp.eligibleFields = lastOp.allFields
           /\ lastOp.body = <<FieldA, FieldB, FieldC>>
                  => lastOp.eligibleFields
                         = <<FieldInfo(FieldA), FieldInfo(FieldB),
                             FieldInfo(FieldC)>>

\* The three fields of the scenario were filtered under all-args.
C20_Witness ==
    /\ lastOp.op = "lombok"
    /\ lastOp.annotation.type = "all-args"
    /\ lastOp.body = <<FieldA, FieldB, FieldC>>
    /\ Len(lastOp.eligibleFields) = 3

(***************************************************************************)
(* C21  Static fields are always excluded: no static field of the class    *)
(* body yields a synthesized-constructor use-site, under required-args or  *)
(* under all-args, also when the field is final or has the not-null        *)
(* marker.                                                                 *)
(***************************************************************************)
C21_StaticFieldsExcluded ==
    lastOp.op = "lombok" =>
        \A i \in 1..Len(lastOp.body) :
            lastOp.body[i].isStatic =>
                \A k \in 1..Len(lastOp.injectionPoints) :
                    lastOp.injectionPoints[k].fieldName # lastOp.body[i].name

(***************************************************************************)
(* C22  convertToInjectionPoints produces exactly one use-site per         *)
(* surviving field, in field order: mechanism LOMBOK_CONSTRUCTOR, requested *)
(* type the field's type, location the field's location, qualifier the     *)
(* field's qualifier (absent when the field has none), is-required true.   *)
(***************************************************************************)
C22_OneUseSitePerField ==
    lastOp.op = "lombok" =>
        LET fields == lastOp.eligibleFields
            points == lastOp.injectionPoints
        IN  /\ Len(points) = Len(fields)
            /\ \A i \in 1..Len(fields) :
                   /\ points[i].injectionType = "LOMBOK_CONSTRUCTOR"
                   /\ points[i].beanType = fields[i].type
                   /\ points[i].location = fields[i].location
                   /\ points[i].qualifier = fields[i].qualifier
                   /\ points[i].isRequired
                   /\ points[i].fieldName = fields[i].name

\* Use-sites were made of a final field without the marker and without a
\* qualifier and, after it, of a field with a qualifier.
C22_Witness ==
    /\ lastOp.op = "lombok"
    /\ Len(lastOp.injectionPoints) >= 2
    /\ ~lastOp.eligibleFields[1].hasNonNull
    /\ lastOp.eligibleFields[1].qualifier = ""
    /\ lastOp.eligibleFields[2].qualifier = "q1"
    /\ lastOp.injectionPoints[2].qualifier = "q1"

Target(kind, owner, name, type, position) ==
    [kind |-> kind, owner |-> owner, name |-> name, type |-> type,
     index |-> position]

OnType(name) == Target("type", name, name, <<>>, -1)

NoParams == [p \in {} |-> ""]

ParameterMap(entries) == [shape |-> "map", entries |-> entries]

MissingParameters == [shape |-> "missing", entries |-> NoParams]

Annotation(name, parameters, location, target) ==
    [name |-> name, parameters |-> parameters, location |-> location,
     target |-> target]

\* Map.get: undefined for an absent key; a TypeError without a Map.
HasParameter(annotation, paramName) ==
    paramName \in DOMAIN annotation.parameters.entries

GetRaises(annotation) == annotation.parameters.shape # "map"

\* The annotation lists of at most MaxAnnotations occurrences of a pool.
AnnotationLists(pool) ==
    UNION {{list \in [1..n -> pool] :
                \A i, j \in 1..n : i # j => list[i] # list[j]} :
           n \in 0..MaxAnnotations}

(***************************************************************************)
(* LombokAnnotationDetector.                                               *)
(***************************************************************************)
\* Raw values of an onConstructor parameter.
TextJava7 == "@__({@Autowired})"
TextJava7Lower == "@__({@autowired})"
TextBraces == "{@Autowired}"
TextQualifier == "@__({@Qualifier})"

\* AUTOWIRED_PATTERN = /@Autowired\b/i on these values.
containsAutowired(onConstructorValue) ==
    onConstructorValue \in {TextJava7, TextJava7Lower, TextBraces}

\* JAVA7_PATTERN = /@__\s*\(/ on these values.
MatchesJava7Pattern(onConstructorValue) ==
    onConstructorValue \in {TextJava7, TextJava7Lower, TextQualifier}

OnConstructorVariants == <<"onConstructor", "onConstructor_", "onConstructor__">>

LombokParameters ==
    {MissingParameters, ParameterMap(NoParams),
     ParameterMap("onConstructor" :> TextJava7Lower),
     ParameterMap(("onConstructor" :> "") @@ ("onConstructor_" :> TextBraces)),
     ParameterMap(("onConstructor_" :> TextBraces)
                      @@ ("onConstructor__" :> TextQualifier))}
        \cup {ParameterMap(OnConstructorVariants[i] :> text) :
                 i \in 1..3, text \in {TextJava7, TextBraces, TextQualifier}}

RequiredArgsLine == 7
AllArgsLine == 8
ServiceLine == 11

\* The class-level occurrences the detector is called with.
ClassAnnotationPool ==
    {Annotation("@RequiredArgsConstructor", p, RequiredArgsLine,
                OnType("Pay")) : p \in LombokParameters}
        \cup {Annotation("@AllArgsConstructor", p, AllArgsLine,
                         OnType("Pay")) : p \in LombokParameters}
        \cup {Annotation("@Service", ParameterMap("value" :> "alt"),
                         ServiceLine, OnType("Pay"))}

isLombokConstructorAnnotation(annotation) ==
    annotation.name \in {"@RequiredArgsConstructor", "@AllArgsConstructor"}

\* A search that keeps the last Lombok constructor annotation of the list.
FindLombokAnnotation_Last(classAnnotations) ==
    LET found == {i \in 1..Len(classAnnotations) :
                     isLombokConstructorAnnotation(classAnnotations[i])}
    IN  IF found = {} THEN 0
        ELSE CHOOSE i \in found : \A j \in found : i >= j

\* Array.find: the position of the first Lombok constructor annotation, 0
\* when there is none.
FindLombokAnnotation(classAnnotations) ==
    LET found == {i \in 1..Len(classAnnotations) :
                     isLombokConstructorAnnotation(classAnnotations[i])}
    IN  IF found = {} THEN 0
        ELSE CHOOSE i \in found : \A j \in found : i <= j

\* The first of the three parameter names that is present, with its value.
extractOnConstructorValueWithVariant(annotation) ==
    LET present == {i \in 1..3 :
                       HasParameter(annotation, OnConstructorVariants[i])}
    IN  IF GetRaises(annotation)
        THEN [raised |-> TRUE, present |-> FALSE, value |-> "", variant |-> ""]
        ELSE IF present = {}
        THEN [raised |-> FALSE, present |-> FALSE, value |-> "",
              variant |-> ""]
        ELSE LET i == CHOOSE i \in present : \A j \in present : i <= j
             IN  [raised |-> FALSE, present |-> TRUE,
                  value |-> annotation.parameters.entries[
                                OnConstructorVariants[i]],
                  variant |-> OnConstructorVariants[i]]

determineSyntaxVariant(onConstructorValue, parameterVariant) ==
    IF parameterVariant = "onConstructor__" THEN "java8-double-underscore"
    ELSE IF parameterVariant = "onConstructor_" THEN "java8-underscore"
    ELSE IF MatchesJava7Pattern(onConstructorValue) THEN "java7"
    ELSE "java8-underscore"

\* What detectConstructorInjection gives back: null, a descriptor, or an
\* exception.
NoLombokAnnotation ==
    [found |-> FALSE, raised |-> FALSE, type |-> "", hasAutowired |-> FALSE,
     syntaxVariant |-> "", location |-> 0]

DetectorThrows == [NoLombokAnnotation EXCEPT !.raised = TRUE]

Descriptor(annotation, onConstructor) ==
    [found |-> TRUE, raised |-> FALSE,
     type |-> IF annotation.name = "@RequiredArgsConstructor"
              THEN "required-args" ELSE "all-args",
     hasAutowired |-> TRUE,
     syntaxVariant |-> determineSyntaxVariant(onConstructor.value,
                                              onConstructor.variant),
     location |-> annotation.location]

detectConstructorInjection(classAnnotations) ==
    LET i == FindLombokAnnotation(classAnnotations)
    IN  IF i = 0 THEN NoLombokAnnotation
        ELSE LET lombokAnnotation == classAnnotations[i]
                 onConstructor ==
                     extractOnConstructorValueWithVariant(lombokAnnotation)
             IN  IF onConstructor.raised THEN DetectorThrows
                 ELSE IF ~onConstructor.present \/ onConstructor.value = ""
                 THEN NoLombokAnnotation
                 ELSE IF ~containsAutowired(onConstructor.value)
                 THEN NoLombokAnnotation
                 ELSE Descriptor(lombokAnnotation, onConstructor)

\* The detector is called with the annotations the scanner found.
InitDetect ==
    /\ index = EmptyIndex
    /\ phase = "init"
    /\ procs = [p \in Procs |-> IdleProc]
    /\ lastOp \in {[op |-> "scanned", annotations |-> list] :
                      list \in AnnotationLists(ClassAnnotationPool)}

DetectConstructorInjection ==
    /\ lastOp.op = "scanned"
    /\ lastOp' = [op |-> "detect", annotations |-> lastOp.annotations,
                  result |-> detectConstructorInjection(lastOp.annotations)]
    /\ UNCHANGED <<index, phase, procs>>

NextDetect == DetectConstructorInjection

SpecDetect == InitDetect /\ [][NextDetect]_vars

\* The syntax tag of each of the three parameter names.
SyntaxOf(parameterVariant) ==
    IF parameterVariant = "onConstructor" THEN "java7"
    ELSE IF parameterVariant = "onConstructor_" THEN "java8-underscore"
    ELSE "java8-double-underscore"

(***************************************************************************)
(* C24  detectConstructorInjection returns absent when no occurrence is    *)
(* one of the two constructor-generating annotations, when the one found   *)
(* has none of the three on-constructor parameters, or when the matched    *)
(* parameter's value does not contain the injection-trigger name;          *)
(* otherwise it returns a descriptor whose kind is required-args for       *)
(* @RequiredArgsConstructor and all-args for @AllArgsConstructor, whose    *)
(* syntax tag corresponds to the parameter name that matched and whose     *)
(* location is the annotation's location.  (Occurrences with a parameter   *)
(* map.)                                                                   *)
(***************************************************************************)
C24_DetectContract ==
    (/\ lastOp.op = "detect"
     /\ \A i \in 1..Len(lastOp.annotations) :
            lastOp.annotations[i].parameters.shape = "map")
        => LET annotations == lastOp.annotations
               result == lastOp.result
               lombok == {i \in 1..Len(annotations) :
                             annotations[i].name \in
                                 {"@RequiredArgsConstructor",
                                  "@AllArgsConstructor"}}
               first == CHOOSE i \in lombok : \A j \in lombok : i <= j
               entries == annotations[first].parameters.entries
               present == {k \in 1..3 :
                              OnConstructorVariants[k] \in DOMAIN entries}
               matched == OnConstructorVariants[
                              CHOOSE k \in present :
                                  \A m \in present : k <= m]
           IN  /\ ~result.raised
               /\ IF lombok = {} THEN ~result.found
                  ELSE IF present = {} THEN ~result.found
                  ELSE IF ~containsAutowired(entries[matched])
                  THEN ~result.found
                  ELSE /\ result.found
                       /\ result.type =
                              (IF annotations[first].name
                                      = "@RequiredArgsConstructor"
                               THEN "required-args" ELSE "all-args")
                       /\ result.syntaxVariant = SyntaxOf(matched)
                       /\ result.location = annotations[first].location

(***************************************************************************)
(* C25  detectConstructorInjection never throws: for every annotation      *)
(* list, also one with an occurrence whose parameter map is missing, it    *)
(* returns a descriptor or absent.                                         *)
(***************************************************************************)
C25_DetectNeverThrows ==
    lastOp.op = "detect" => ~lastOp.result.raised

(***************************************************************************)
(* BeanMetadataExtractor on a parsed file.  The tree holds the package,    *)
(* the type declarations in source order, the field declarations of the    *)
(* classes in source order, and the annotation occurrences the scanner     *)
(* finds in it.                                                            *)
(***************************************************************************)
TypeDecl(kind, name) == [kind |-> kind, name |-> name]

PackageName == <<"com", "x">>

TypeShapes ==
    {<<TypeDecl("class", "Pay")>>,
     <<TypeDecl("class", "Pay"), TypeDecl("class", "Alt")>>,
     <<TypeDecl("interface", "Api"), TypeDecl("class", "Pay")>>}

FieldLists == {<<>>, <<FieldB, FieldC>>, <<FieldC, FieldB>>}

ComponentOnPay ==
    Annotation("@Component", ParameterMap(NoParams), 10, OnType("Pay"))

ServiceNamedAlt ==
    Annotation("@Service", ParameterMap("value" :> "alt"), ServiceLine,
               OnType("Pay"))

ComponentOnAlt ==
    Annotation("@Component", ParameterMap(NoParams), 30, OnType("Alt"))

\* @Bean on the method TPayY alt() of class Pay.
BeanMethod ==
    Annotation("@Bean", ParameterMap(NoParams), 20,
               Target("method", "Pay", "alt", TPayY, -1))

ComponentMalformed ==
    Annotation("@Component", MissingParameters, 12, OnType("Pay"))

AutowiredField ==
    Annotation("@Autowired", ParameterMap(NoParams), 21,
               Target("field", "Pay", "p", TPay, -1))

AutowiredConstructorParameter ==
    Annotation("@Autowired", ParameterMap(NoParams), 22,
               Target("constructor-parameter", "Pay", "q", TPayQ, 0))

ResourceSetter ==
    Annotation("@Resource", ParameterMap(NoParams), 23,
               Target("setter-parameter", "Pay", "r", TPayY, 0))

InjectMalformed ==
    Annotation("@Inject", MissingParameters, 24,
               Target("field", "Pay", "t", TPay, -1))

LombokRequired ==
    Annotation("@RequiredArgsConstructor",
               ParameterMap("onConstructor" :> TextJava7), RequiredArgsLine,
               OnType("Pay"))

LombokAllArgs ==
    Annotation("@AllArgsConstructor",
               ParameterMap("onConstructor_" :> TextBraces), AllArgsLine,
               OnType("Pay"))

LombokMalformed ==
    Annotation("@RequiredArgsConstructor", MissingParameters,
               RequiredArgsLine, OnType("Pay"))

NonNullOnField ==
    Annotation("@NonNull", ParameterMap(NoParams), 2,
               Target("field", "Pay", "b", TPayQ, -1))

FileAnnotationPool ==
    {ComponentOnPay, ServiceNamedAlt, ComponentOnAlt, BeanMethod,
     ComponentMalformed, AutowiredField, AutowiredConstructorParameter,
     ResourceSetter, InjectMalformed, LombokRequired, LombokAllArgs,
     LombokMalformed, NonNullOnField}

ClassNames(types) ==
    {types[i].name : i \in {j \in 1..Len(types) : types[j].kind = "class"}}

\* The trees of the files: every occurrence is written in a class of the file.
CompilationUnits ==
    {cst \in [package : {PackageName}, types : TypeShapes,
              fields : FieldLists,
              annotations : AnnotationLists(FileAnnotationPool)] :
        \A i \in 1..Len(cst.annotations) :
            cst.annotations[i].target.owner \in ClassNames(cst.types)}

BeanDefinitionAnnotations ==
    {"@Component", "@Service", "@Repository", "@Controller",
     "@RestController", "@Configuration", "@Bean"}

InjectionAnnotations == {"@Autowired", "@Resource", "@Inject"}

isBeanDefinitionAnnotation(annotation) ==
    annotation.name \in BeanDefinitionAnnotations

isInjectionAnnotation(annotation) == annotation.name \in InjectionAnnotations

\* The value of a parameter, "" when the annotation does not have it.
extractAnnotationParameter(annotation, paramName) ==
    IF HasParameter(annotation, paramName)
    THEN annotation.parameters.entries[paramName]
    ELSE ""

\* BeanDefinition.getDefaultBeanName: the identifier with its first letter in
\* lower case.
getDefaultBeanName(className) ==
    CASE className = "Pay" -> "pay"
      [] className = "Alt" -> "alt"
      [] className = "Api" -> "api"
      [] OTHER -> className

\* extractClassInfo: the first type declaration of the file, when it is a
\* class; its qualified name is the package and the class name.
extractClassInfo(cst) ==
    IF cst.types[1].kind # "class"
    THEN [found |-> FALSE, className |-> "", fullyQualifiedName |-> <<>>]
    ELSE [found |-> TRUE, className |-> cst.types[1].name,
          fullyQualifiedName |-> cst.package \o <<cst.types[1].name>>]

\* createBeanDefinition: the declaration in a sequence of one, the empty
\* sequence for undefined.  An exception of the parameter lookup is caught.
createBeanDefinition(annotation, uri, cst) ==
    IF GetRaises(annotation) THEN <<>>
    ELSE LET value == extractAnnotationParameter(annotation, "value")
             explicitName ==
                 IF value # "" THEN value
                 ELSE extractAnnotationParameter(annotation, "name")
             classInfo == extractClassInfo(cst)
         IN  IF ~classInfo.found THEN <<>>
             ELSE <<[name |-> IF explicitName # "" THEN explicitName
                              ELSE getDefaultBeanName(classInfo.className),
                     type |-> classInfo.fullyQualifiedName,
                     definitionType |-> IF annotation.name = "@Bean"
                                        THEN "BEAN_METHOD" ELSE "COMPONENT",
                     location |-> annotation.location,
                     file |-> uri,
                     annotationType |-> annotation.name,
                     qualifiers |-> {},
                     isPrimary |-> FALSE]>>

RECURSIVE extractBeanDefinitions(_, _, _)
extractBeanDefinitions(annotations, uri, cst) ==
    IF annotations = <<>> THEN <<>>
    ELSE (IF isBeanDefinitionAnnotation(Head(annotations))
          THEN createBeanDefinition(Head(annotations), uri, cst)
          ELSE <<>>)
         \o extractBeanDefinitions(Tail(annotations), uri, cst)

determineInjectionType(annotation, cst) == "FIELD"

\* BeanMetadataExtractor.extractFieldInfo(cst, location).
extractFieldInfoAt(cst, location) ==
    [name |-> "unknownField", type |-> <<"java", "lang", "Object">>]

\* createInjectionPoint: the use-site in a sequence of one, the empty
\* sequence for undefined.  An exception of the parameter lookup is caught.
createInjectionPoint(annotation, uri, cst) ==
    IF GetRaises(annotation) THEN <<>>
    ELSE LET fieldInfo == extractFieldInfoAt(cst, annotation.location)
         IN  <<[injectionType |-> determineInjectionType(annotation, cst),
                beanType |-> fieldInfo.type,
                location |-> annotation.location,
                qualifier |-> extractAnnotationParameter(annotation, "value"),
                isRequired |-> TRUE,
                fieldName |-> fieldInfo.name]>>

RECURSIVE ExplicitInjectionPoints(_, _, _)
ExplicitInjectionPoints(annotations, uri, cst) ==
    IF annotations = <<>> THEN <<>>
    ELSE (IF isInjectionAnnotation(Head(annotations))
          THEN createInjectionPoint(Head(annotations), uri, cst)
          ELSE <<>>)
         \o ExplicitInjectionPoints(Tail(annotations), uri, cst)

\* LombokInjectionExtractor.extract.
extract(cst, uri, lombokAnnotation) ==
    convertToInjectionPoints(
        filterFields(extractFieldInfo(cst.fields), lombokAnnotation))

extractInjectionPoints_ExplicitOnly(annotations, uri, cst) ==
    LET lombokAnnotation == detectConstructorInjection(annotations)
    IN  IF lombokAnnotation.raised
        THEN [raised |-> TRUE, injectionPoints |-> <<>>]
        ELSE [raised |-> FALSE,
              injectionPoints |->
                  ExplicitInjectionPoints(annotations, uri, cst)]

\* extractInjectionPoints: the explicit use-sites, then the use-sites of the
\* synthesized constructor.  The detector is called outside any try block: its
\* exception leaves the method, and the use-sites collected so far with it.
extractInjectionPoints(annotations, uri, cst) ==
    LET explicit == ExplicitInjectionPoints(annotations, uri, cst)
        lombokAnnotation == detectConstructorInjection(annotations)
    IN  IF lombokAnnotation.raised
        THEN [raised |-> TRUE, injectionPoints |-> <<>>]
        ELSE [raised |-> FALSE,
              injectionPoints |->
                  explicit \o
                  (IF lombokAnnotation.found /\ lombokAnnotation.hasAutowired
                   THEN extract(cst, uri, lombokAnnotation)
                   ELSE <<>>)]

\* extractFromFile once the tree is there: the declarations are stored in the
\* result, then the use-sites; an exception is caught and the result returned
\* as it stands.  caught records that the catch block ran.
extractFromTree(uri, cst) ==
    LET definitions == extractBeanDefinitions(cst.annotations, uri, cst)
        points == extractInjectionPoints(cst.annotations, uri, cst)
    IN  [definitions |-> definitions,
         injectionPoints |-> IF points.raised THEN <<>>
                             ELSE points.injectionPoints,
         raised |-> FALSE,
         caught |-> points.raised]

\* getCST has returned the tree of a file.
InitExtract ==
    /\ index = EmptyIndex
    /\ phase = "init"
    /\ procs = [p \in Procs |-> IdleProc]
    /\ lastOp \in {[op |-> "parsed", uri |-> "A.java", cst |-> cst] :
                      cst \in CompilationUnits}

ExtractFromTree ==
    /\ lastOp.op = "parsed"
    /\ lastOp' = [op |-> "extract", uri |-> lastOp.uri, cst |-> lastOp.cst,
                  result |-> extractFromTree(lastOp.uri, lastOp.cst)]
    /\ UNCHANGED <<index, phase, procs>>

NextExtract == ExtractFromTree

SpecExtract == InitExtract /\ [][NextExtract]_vars

\* The synthesized-constructor use-sites of a result.
LombokPoints(result) ==
    {k \in 1..Len(result.injectionPoints) :
        result.injectionPoints[k].injectionType = "LOMBOK_CONSTRUCTOR"}

WellFormed(annotation) == annotation.parameters.shape = "map"

(***************************************************************************)
(* C23  Scenario 3: the file's class carries @RequiredArgsConstructor (and *)
(* no other constructor-generating annotation) with an on-constructor      *)
(* parameter that contains @Autowired, and has one not-null field and one  *)
(* plain field.  Extraction yields exactly one synthesized-constructor     *)
(* use-site, for the not-null field, and none for the plain field.         *)
(***************************************************************************)
Scenario3(cst) ==
    LET lombok == {i \in 1..Len(cst.annotations) :
                      cst.annotations[i].name \in
                          {"@RequiredArgsConstructor", "@AllArgsConstructor"}}
    IN  /\ Cardinality(lombok) = 1
        /\ \A i \in lombok :
               /\ cst.annotations[i].name = "@RequiredArgsConstructor"
               /\ WellFormed(cst.annotations[i])
               /\ \E k \in 1..3 :
                      /\ OnConstructorVariants[k] \in
                             DOMAIN cst.annotations[i].parameters.entries
                      /\ cst.annotations[i].parameters.entries[
                             OnConstructorVariants[k]] = TextJava7
        /\ Len(cst.fields) = 2
        /\ \E i, j \in 1..2 :
               /\ cst.fields[i].hasNonNull /\ ~cst.fields[i].isStatic
               /\ ~cst.fields[j].hasNonNull /\ ~cst.fields[j].isFinal
               /\ ~cst.fields[j].isStatic

C23_Scenario3 ==
    (lastOp.op = "extract" /\ Scenario3(lastOp.cst))
        => LET points == lastOp.result.injectionPoints
               fields == lastOp.cst.fields
           IN  /\ Cardinality(LombokPoints(lastOp.result)) = 1
               /\ \A k \in LombokPoints(lastOp.result) :
                      \E i \in 1..2 : /\ fields[i].hasNonNull
                                      /\ points[k].fieldName = fields[i].name
                                      /\ points[k].beanType = fields[i].type
                                      /\ points[k].location = fields[i].line

\* The scenario was extracted, with an explicit use-site in the same file.
C23_Witness ==
    /\ lastOp.op = "extract"
    /\ Scenario3(lastOp.cst)
    /\ lastOp.cst.fields = <<FieldC, FieldB>>
    /\ Len(lastOp.result.injectionPoints) = 2
    /\ lastOp.result.injectionPoints[2].fieldName = "b"

(***************************************************************************)
(* C26  Log-and-skip: when one annotation, or the detection or extraction  *)
(* of the synthesized constructor, fails to yield a usable fact, only that *)
(* fact is missing from the file's result: every other declaration         *)
(* annotation still has its declaration in the result and every other     *)
(* injection annotation its explicit use-site.                             *)
(***************************************************************************)
C26_LogAndSkip ==
    lastOp.op = "extract" =>
        LET cst == lastOp.cst
            result == lastOp.result
        IN  \A i \in 1..Len(cst.annotations) :
                LET annotation == cst.annotations[i]
                IN  /\ (/\ WellFormed(annotation)
                        /\ isInjectionAnnotation(annotation))
                           => \E k \in 1..Len(result.injectionPoints) :
                                  /\ result.injectionPoints[k].location
                                         = annotation.location
                                  /\ k \notin LombokPoints(result)
                    /\ (/\ WellFormed(annotation)
                        /\ isBeanDefinitionAnnotation(annotation)
                        /\ cst.types[1].kind = "class")
                           => \E k \in 1..Len(result.definitions) :
                                  result.definitions[k].location
                                      = annotation.location

\* The position of the occurrence written at a location of the file.
AnnotationAt(cst, location) ==
    CHOOSE i \in 1..Len(cst.annotations) :
        cst.annotations[i].location = location

\* The qualified name of a type of the file.
QualifiedName(cst, identifier) == cst.package \o <<identifier>>

(***************************************************************************)
(* C28  Every declaration's declared type is the qualified name of the     *)
(* type that encloses its annotation, also for a second or later type of   *)
(* the file, except for @Bean, where it is the return type of the          *)
(* annotated method.                                                       *)
(***************************************************************************)
C28_DeclaredType ==
    lastOp.op = "extract" =>
        \A k \in 1..Len(lastOp.result.definitions) :
            LET definition == lastOp.result.definitions[k]
                annotation ==
                    lastOp.cst.annotations[
                        AnnotationAt(lastOp.cst, definition.location)]
            IN  definition.type =
                    (IF annotation.name = "@Bean"
                     THEN annotation.target.type
                     ELSE QualifiedName(lastOp.cst, annotation.target.owner))

\* The declarations of a result made of the occurrence at a location.
DefinitionsAt(result, location) ==
    {k \in 1..Len(result.definitions) :
        result.definitions[k].location = location}

\* The explicit name of an occurrence, "" without one.
ExplicitName(annotation) ==
    IF "value" \in DOMAIN annotation.parameters.entries
    THEN annotation.parameters.entries["value"]
    ELSE IF "name" \in DOMAIN annotation.parameters.entries
    THEN annotation.parameters.entries["name"]
    ELSE ""

\* Scenario 1: the file holds one stereotype occurrence, without a name.
Scenario1(cst) ==
    /\ Len(cst.annotations) = 1
    /\ WellFormed(cst.annotations[1])
    /\ isBeanDefinitionAnnotation(cst.annotations[1])
    /\ cst.annotations[1].name # "@Bean"
    /\ ExplicitName(cst.annotations[1]) = ""

(***************************************************************************)
(* C29  Every declaration-annotation occurrence yields one declaration;    *)
(* its declared name is the explicit value/name parameter when present,    *)
(* else the lower-camel-case default of the enclosing type's identifier    *)
(* (for @Bean, of the method's identifier), and is never empty.  A         *)
(* stereotype without a name on type S, indexed alone, makes a use-site of *)
(* type S without qualifier or name resolve to exactly one candidate, of   *)
(* score 70.                                                               *)
(***************************************************************************)
C29_DeclaredName ==
    lastOp.op = "extract" =>
        LET cst == lastOp.cst
            result == lastOp.result
        IN  /\ \A i \in 1..Len(cst.annotations) :
                   LET annotation == cst.annotations[i]
                       identifier == IF annotation.name = "@Bean"
                                     THEN annotation.target.name
                                     ELSE annotation.target.owner
                   IN  (WellFormed(annotation)
                            /\ isBeanDefinitionAnnotation(annotation))
                       => /\ Cardinality(
                                 DefinitionsAt(result, annotation.location))
                                 = 1
                          /\ \A k \in DefinitionsAt(result,
                                                    annotation.location) :
                                 /\ result.definitions[k].name # ""
                                 /\ result.definitions[k].name =
                                        (IF ExplicitName(annotation) # ""
                                         THEN ExplicitName(annotation)
                                         ELSE getDefaultBeanName(identifier))
            /\ Scenario1(cst)
                   => LET S == QualifiedName(cst,
                                             cst.annotations[1].target.owner)
                          alone == updateFile_addResult(EmptyIndex, result)
                          candidates ==
                              resolve(Injection(S, "", "", lastOp.uri, "x"),
                                      alone)
                      IN  /\ Len(candidates) = 1
                          /\ candidates[1].matchScore = 70

\* The mechanism of a use-site written on a declaration of a kind.
MechanismOf(kind) ==
    IF kind = "constructor-parameter" THEN "CONSTRUCTOR"
    ELSE IF kind = "setter-parameter" THEN "SETTER_METHOD"
    ELSE "FIELD"

\* The explicit use-sites of a result made of the occurrence at a location.
ExplicitPointsAt(result, location) ==
    {k \in 1..Len(result.injectionPoints) :
        /\ result.injectionPoints[k].location = location
        /\ k \notin LombokPoints(result)}

(***************************************************************************)
(* C30  Every @Autowired, @Resource or @Inject occurrence yields exactly   *)
(* one use-site from the annotated member or parameter: its requested type *)
(* is the member's declared type, its mechanism is the position of the     *)
(* annotation (member, constructor parameter, setter parameter), and a     *)
(* constructor or setter use-site carries a non-negative positional index. *)
(* (Occurrences with a parameter map, in files whose use-site pass ran to  *)
(* its end.)                                                               *)
(***************************************************************************)
C30_ExplicitUseSites ==
    (lastOp.op = "extract" /\ ~lastOp.result.caught) =>
        LET cst == lastOp.cst
            result == lastOp.result
        IN  \A i \in 1..Len(cst.annotations) :
                LET annotation == cst.annotations[i]
                    points == ExplicitPointsAt(result, annotation.location)
                IN  (WellFormed(annotation)
                         /\ isInjectionAnnotation(annotation))
                    => /\ Cardinality(points) = 1
                       /\ \A k \in points :
                              LET point == result.injectionPoints[k]
                              IN  /\ point.beanType = annotation.target.type
                                  /\ point.injectionType =
                                         MechanismOf(annotation.target.kind)
                                  /\ point.injectionType
                                         \in {"CONSTRUCTOR", "SETTER_METHOD"}
                                     => /\ "parameterIndex" \in DOMAIN point
                                        /\ point.parameterIndex >= 0

(***************************************************************************)
(* C31  Qualifier fallback: when the use-site has an explicit qualifier    *)
(* that no type-matching declaration carries, resolve returns the          *)
(* candidates of type matching only, that is what the primary/type step    *)
(* gives for the requested type, and this list is not empty while          *)
(* type-matching declarations are indexed.                                 *)
(***************************************************************************)
\* The declarations listed under the indexed files whose type matches the
\* use-site.
TypeMatches(idx, injection) ==
    {b \in UNION {Range(idx.definitionsByFile[f]) : f \in Files} :
        isTypeMatch(b.type, injection.beanType)}

C31_QualifierFallback ==
    (lastOp.op = "resolve"
        /\ lastOp.injection.qualifier # ""
        /\ QualifiedTypeMatches(index, lastOp.injection) = {})
        => /\ lastOp.candidates = TypeStep(index, lastOp.injection)
           /\ TypeMatches(index, lastOp.injection) # {}
                  => lastOp.candidates # <<>>

CarriesTrigger(annotation) ==
    /\ annotation.parameters.shape = "map"
    /\ \E variant \in DOMAIN annotation.parameters.entries :
           /\ variant \in Range(OnConstructorVariants)
           /\ containsAutowired(annotation.parameters.entries[variant])

\* The constructor-generating annotations of the list, in order.
LombokPositions(annotations) ==
    {i \in 1..Len(annotations) :
        annotations[i].name \in {"@RequiredArgsConstructor",
                                 "@AllArgsConstructor"}}

RECURSIVE SumLen(_, _)
SumLen(view, keys) ==
    IF keys = <<>> THEN 0
    ELSE Len(view[Head(keys)]) + SumLen(view, Tail(keys))

\* BeanIndex.getStats: the number of declarations the index holds.
getStats(idx) == [totalBeans |-> SumLen(idx.definitionsByFile, FileOrder)]

\* buildFullIndex is called: it runs up to await findAllJavaFiles().
BuildFullIndex ==
    /\ procs["command"].pc = "idle"
    /\ phase' = "active"
    /\ procs' = [procs EXCEPT !["command"].pc = "listing"]
    /\ lastOp' = [op |-> "build", listing |-> <<>>, processed |-> <<>>]
    /\ UNCHANGED index

\* The files are listed: the loop ends at once with the count, or updateFile
\* of the first file runs up to its await.
BuildListed(s) ==
    /\ procs["command"].pc = "listing"
    /\ IF s = <<>>
       THEN /\ procs' = [procs EXCEPT !["command"] = IdleProc]
            /\ lastOp' = [op |-> "built", listing |-> s, processed |-> <<>>,
                          count |-> getStats(index).totalBeans]
            /\ UNCHANGED index
       ELSE /\ index' = updateFile_removeOld(index, Head(s))
            /\ procs' = [procs EXCEPT !["command"] =
                            [IdleProc EXCEPT !.pc = "reading",
                                             !.todo = Tail(s),
                                             !.file = Head(s)]]
            /\ lastOp' = [op |-> "build", listing |-> s, processed |-> <<>>]
    /\ UNCHANGED phase

\* The document of the current file is opened.
BuildFileRead(src) ==
    /\ procs["command"].pc = "reading"
    /\ procs' = [procs EXCEPT !["command"].pc = "parsing",
                              !["command"].src = src]
    /\ UNCHANGED <<index, phase, lastOp>>

\* updateFile of the current file ends: its result is added, and the build
\* returns the count when this was the last file.
BuildCommit ==
    /\ procs["command"].pc = "parsing"
    /\ LET f == procs["command"].file
           result == extractFromFile(f, getCST(procs["command"].src))
           added == updateFile_addResult(index, result)
           processed == Append(lastOp.processed,
                               [file |-> f, src |-> procs["command"].src])
       IN  /\ index' = added
           /\ IF procs["command"].todo = <<>>
              THEN /\ procs' = [procs EXCEPT !["command"] = IdleProc]
                   /\ lastOp' = [op |-> "built", listing |-> lastOp.listing,
                                 processed |-> processed,
                                 count |-> getStats(added).totalBeans]
              ELSE /\ procs' = [procs EXCEPT !["command"] =
                                   [IdleProc EXCEPT
                                        !.pc = "loop",
                                        !.todo = procs["command"].todo]]
                   /\ lastOp' = [lastOp EXCEPT !.processed = processed]
    /\ UNCHANGED phase

\* The loop goes on: updateFile of the next file runs up to its await.
BuildNextFile ==
    /\ procs["command"].pc = "loop"
    /\ index' = updateFile_removeOld(index, Head(procs["command"].todo))
    /\ procs' = [procs EXCEPT !["command"] =
                    [IdleProc EXCEPT !.pc = "reading",
                                     !.todo = Tail(procs["command"].todo),
                                     !.file = Head(procs["command"].todo)]]
    /\ UNCHANGED <<phase, lastOp>>

\* The steps the build takes by itself once it is called: every promise it
\* awaits settles.
BuildStep ==
    \/ \E s \in Listings : BuildListed(s)
    \/ \E src \in SourcesOf(procs["command"].file) : BuildFileRead(src)
    \/ BuildCommit
    \/ BuildNextFile

NextBuild ==
    \/ BuildFullIndex
    \/ \E s \in Listings : BuildListed(s)
    \/ \E src \in SourcesOf(procs["command"].file) : BuildFileRead(src)
    \/ BuildCommit
    \/ BuildNextFile

SpecBuild == Init /\ [][NextBuild]_vars /\ WF_vars(BuildStep)

(***************************************************************************)
(* C32  buildFullIndex always terminates and goes through every file of    *)
(* its listing exactly once, in order: a file whose parsing or extraction  *)
(* fails contributes nothing, the other files of the listing are indexed   *)
(* all the same, and the call returns the count of declarations.           *)
(***************************************************************************)
\* Reading this source ends without a tree, or with an exception part-way.
FailsToExtract(src) == getCST(src) = NoTree \/ src.kind = "partial"

BuildRunning == procs["command"].pc # "idle"

BuildReturned == lastOp.op = "built" /\ procs["command"].pc = "idle"

C32_BuildOutcome ==
    lastOp.op = "built" =>
        /\ [i \in 1..Len(lastOp.processed) |-> lastOp.processed[i].file]
               = lastOp.listing
        /\ \A i \in 1..Len(lastOp.processed) :
               LET f == lastOp.processed[i].file
                   src == lastOp.processed[i].src
               IN  IF FailsToExtract(src)
                   THEN ReflectsExactly(index, f, EmptyFacts)
                   ELSE /\ index.definitionsByFile[f]
                               = SourceFacts(f, src.ver).definitions
                        /\ index.injectionsByFile[f]
                               = SourceFacts(f, src.ver).injectionPoints
        /\ lastOp.count = getStats(index).totalBeans

C32_BuildTerminates ==
    /\ [](C32_BuildOutcome)
    /\ BuildRunning ~> BuildReturned

(***************************************************************************)
(* C33  When a build that started on a populated index has returned, the   *)
(* index holds declarations and use-sites only for the files of that       *)
(* build's listing: a file that was indexed earlier and is not found any   *)
(* more has nothing left in any view.                                      *)
(***************************************************************************)
C33_RebuildDropsMissingFiles ==
    lastOp.op = "built" =>
        \A f \in Files :
            f \notin Range(lastOp.listing)
                => ReflectsExactly(index, f, EmptyFacts)

(***************************************************************************)
(* DependencyTracker.  In the specification of the tracker the variable    *)
(* index holds its two maps, beanToFiles and fileToBeans (a Map is a       *)
(* function on the keys that were set), and lastOp holds the last call,    *)
(* what it returned, and the pairs <<bean, file>> recorded as definitions  *)
(* and as usages since the file was last removed.  The list returned by    *)
(* getAffectedFiles is modelled by the set of its elements.                *)
(***************************************************************************)
TrackedFiles == Files \cup {"C.java"}

NewTracker == [beanToFiles |-> <<>>, fileToBeans |-> <<>>]

\* Map.get followed by Set.add, the set being created when the key is absent.
AddToSet(map, key, value) ==
    [k \in DOMAIN map \cup {key} |->
        IF k = key
        THEN (IF key \in DOMAIN map THEN map[key] ELSE {}) \cup {value}
        ELSE map[k]]

recordUsage(tracker, beanName, usageFile) ==
    [beanToFiles |-> AddToSet(tracker.beanToFiles, beanName, usageFile),
     fileToBeans |-> AddToSet(tracker.fileToBeans, usageFile, beanName)]

recordDefinition(tracker, beanName, definitionFile) ==
    recordUsage(tracker, beanName, definitionFile)

getAffectedFiles(tracker, changedFile) ==
    IF changedFile \notin DOMAIN tracker.fileToBeans THEN {}
    ELSE UNION {tracker.beanToFiles[bean] :
                   bean \in tracker.fileToBeans[changedFile]
                            \cap DOMAIN tracker.beanToFiles}
             \ {changedFile}

\* A removal that forgets the file's own entry but leaves the file in the
\* file sets of its beans.
DependencyTracker_removeFile_KeepsUsages(tracker, filePath) ==
    [beanToFiles |-> tracker.beanToFiles,
     fileToBeans |->
         [f \in DOMAIN tracker.fileToBeans \ {filePath} |->
             tracker.fileToBeans[f]]]

\* DependencyTracker.removeFile
DependencyTracker_removeFile(tracker, filePath) ==
    LET beans == IF filePath \in DOMAIN tracker.fileToBeans
                 THEN tracker.fileToBeans[filePath] ELSE {}
    IN  [beanToFiles |->
             [bean \in DOMAIN tracker.beanToFiles |->
                 IF bean \in beans
                 THEN tracker.beanToFiles[bean] \ {filePath}
                 ELSE tracker.beanToFiles[bean]],
         fileToBeans |->
             [f \in DOMAIN tracker.fileToBeans \ {filePath} |->
                 tracker.fileToBeans[f]]]

InitTracker ==
    /\ index = NewTracker
    /\ phase = "init"
    /\ procs = [p \in Procs |-> IdleProc]
    /\ lastOp = [op |-> "new", definitions |-> {}, usages |-> {}]

RecordUsage(beanName, usageFile) ==
    /\ index' = recordUsage(index, beanName, usageFile)
    /\ lastOp' = [op |-> "recordUsage", bean |-> beanName,
                  file |-> usageFile,
                  definitions |-> lastOp.definitions,
                  usages |-> lastOp.usages \cup {<<beanName, usageFile>>}]
    /\ UNCHANGED <<phase, procs>>

RecordDefinition(beanName, definitionFile) ==
    /\ index' = recordDefinition(index, beanName, definitionFile)
    /\ lastOp' = [op |-> "recordDefinition", bean |-> beanName,
                  file |-> definitionFile,
                  definitions |->
                      lastOp.definitions \cup {<<beanName, definitionFile>>},
                  usages |-> lastOp.usages]
    /\ UNCHANGED <<phase, procs>>

TrackerRemoveFile(filePath) ==
    /\ index' = DependencyTracker_removeFile(index, filePath)
    /\ lastOp' = [op |-> "removeFile", file |-> filePath,
                  definitions |->
                      {d \in lastOp.definitions : d[2] # filePath},
                  usages |-> {u \in lastOp.usages : u[2] # filePath}]
    /\ UNCHANGED <<phase, procs>>

GetAffectedFiles(changedFile) ==
    /\ lastOp' = [op |-> "getAffectedFiles", file |-> changedFile,
                  result |-> getAffectedFiles(index, changedFile),
                  definitions |-> lastOp.definitions,
                  usages |-> lastOp.usages]
    /\ UNCHANGED <<index, phase, procs>>

NextTracker ==
    \/ \E b \in Names, f \in TrackedFiles : RecordUsage(b, f)
    \/ \E b \in Names, f \in TrackedFiles : RecordDefinition(b, f)
    \/ \E f \in TrackedFiles : TrackerRemoveFile(f)
    \/ \E f \in TrackedFiles : GetAffectedFiles(f)

SpecTracker == InitTracker /\ [][NextTracker]_vars

(***************************************************************************)
(* C36  getAffectedFiles(changedFile) returns exactly the files that use a *)
(* bean defined in changedFile: never changedFile itself, no file that     *)
(* merely shares with changedFile a bean defined elsewhere, and nothing    *)
(* for a file the tracker does not know or that was removed.               *)
(***************************************************************************)
\* The files recorded as using a bean that is recorded as defined in file f.
UsersOfBeansDefinedIn(f) ==
    {g \in TrackedFiles \ {f} :
        \E b \in Names : /\ <<b, f>> \in lastOp.definitions
                         /\ <<b, g>> \in lastOp.usages}

\* Nothing is recorded for file f, or f was removed since.
NotRecorded(f) ==
    \A b \in Names : /\ <<b, f>> \notin lastOp.definitions
                     /\ <<b, f>> \notin lastOp.usages

C36_AffectedFilesExact ==
    lastOp.op = "getAffectedFiles" =>
        /\ lastOp.result = UsersOfBeansDefinedIn(lastOp.file)
        /\ lastOp.file \notin lastOp.result
        /\ NotRecorded(lastOp.file) => lastOp.result = {}

(***************************************************************************)
(* C37  After any sequence of recordUsage, recordDefinition and removeFile *)
(* calls the two maps of the tracker are inverses of each other: file f is *)
(* in beanToFiles[b] iff bean b is in fileToBeans[f]; and a file that was  *)
(* removed and not recorded again is in no bean's file set and in no       *)
(* result of getAffectedFiles.                                             *)
(***************************************************************************)
C37_MapsAreInverse ==
    /\ \A b \in Names, f \in TrackedFiles :
           (b \in DOMAIN index.beanToFiles /\ f \in index.beanToFiles[b])
               <=> (f \in DOMAIN index.fileToBeans
                        /\ b \in index.fileToBeans[f])
    /\ \A f \in TrackedFiles :
           NotRecorded(f) =>
               /\ \A b \in DOMAIN index.beanToFiles :
                      f \notin index.beanToFiles[b]
               /\ \A g \in TrackedFiles : f \notin getAffectedFiles(index, g)

\* removeFile took the last file away from a bean while another file is
\* still tracked.
C37_Witness ==
    /\ lastOp.op = "removeFile"
    /\ \E b \in DOMAIN index.beanToFiles : index.beanToFiles[b] = {}
    /\ \E g \in DOMAIN index.fileToBeans :
           g # lastOp.file /\ index.fileToBeans[g] # {}

(***************************************************************************)
(* MemoryManager.  In the specification of the memory manager the variable *)
(* index holds accessTimes, a Map kept as the sequence of its entries in   *)
(* insertion order, and maxCacheSize in bytes; lastOp holds the last call  *)
(* and, for an eviction, the entries before it.  Date.now() is the wall    *)
(* clock: any value of 0..MaxClock.                                        *)
(***************************************************************************)
MaxClock == 1

CachedFiles == {"A.java", "B.java", "C.java", "D.java", "E.java"}

\* maxCacheSizeMB * 1024 * 1024 for two values of the constructor argument.
CacheSizes == {1400, 2400}

BytesPerEntry == 500

Entry(filePath, time) == [file |-> filePath, time |-> time]

Keys(entries) == {entries[i].file : i \in 1..Len(entries)}

\* Map.set: the value of an existing key is replaced where it stands, a new
\* key goes to the end.
MapSet(entries, filePath, time) ==
    IF filePath \in Keys(entries)
    THEN [i \in 1..Len(entries) |->
             IF entries[i].file = filePath THEN Entry(filePath, time)
             ELSE entries[i]]
    ELSE Append(entries, Entry(filePath, time))

RECURSIVE MapDelete(_, _)
MapDelete(entries, filePath) ==
    IF entries = <<>> THEN <<>>
    ELSE (IF Head(entries).file = filePath THEN <<>> ELSE <<Head(entries)>>)
         \o MapDelete(Tail(entries), filePath)

recordAccess(mm, filePath, now) ==
    [mm EXCEPT !.accessTimes = MapSet(@, filePath, now)]

RECURSIVE InsertByTime(_, _)
\* e goes behind every entry whose time is not later than its own.
InsertByTime(sorted, e) ==
    IF sorted = <<>> THEN <<e>>
    ELSE IF Head(sorted).time <= e.time
         THEN <<Head(sorted)>> \o InsertByTime(Tail(sorted), e)
         ELSE <<e>> \o sorted

RECURSIVE SortByTimeFrom(_, _)
SortByTimeFrom(sorted, rest) ==
    IF rest = <<>> THEN sorted
    ELSE SortByTimeFrom(InsertByTime(sorted, Head(rest)), Tail(rest))

\* Array.from(entries).sort((a, b) => a[1] - b[1]), a stable sort.
sortByAccessTime(entries) == SortByTimeFrom(<<>>, entries)

RECURSIVE DeleteAll(_, _)
DeleteAll(entries, victims) ==
    IF victims = <<>> THEN entries
    ELSE DeleteAll(MapDelete(entries, Head(victims).file), Tail(victims))

\* Math.floor(sorted.length * 0.2) is the length divided by five.
evictLRU(mm) ==
    IF Len(mm.accessTimes) = 0 THEN mm
    ELSE LET sorted == sortByAccessTime(mm.accessTimes)
             toEvict == Len(sorted) \div 5
         IN  [mm EXCEPT !.accessTimes =
                 DeleteAll(@, SubSeq(sorted, 1, toEvict))]

invalidateCache(mm, filePath, changeType, now) ==
    IF changeType = "delete"
    THEN [mm EXCEPT !.accessTimes = MapDelete(@, filePath)]
    ELSE recordAccess(mm, filePath, now)

estimateIndexSize(mm) == Len(mm.accessTimes) * BytesPerEntry

InitMemory ==
    /\ index \in {[accessTimes |-> <<>>, maxCacheSize |-> size] :
                     size \in CacheSizes}
    /\ phase = "init"
    /\ procs = [p \in Procs |-> IdleProc]
    /\ lastOp = NoOp

RecordAccess(filePath, now) ==
    /\ index' = recordAccess(index, filePath, now)
    /\ lastOp' = [op |-> "recordAccess"]
    /\ UNCHANGED <<phase, procs>>

InvalidateCache(filePath, changeType, now) ==
    /\ index' = invalidateCache(index, filePath, changeType, now)
    /\ lastOp' = [op |-> "invalidateCache"]
    /\ UNCHANGED <<phase, procs>>

\* A direct call of evictLRU.
EvictLRU ==
    /\ index' = evictLRU(index)
    /\ lastOp' = [op |-> "evictLRU", before |-> index.accessTimes,
                  exceeded |-> FALSE]
    /\ UNCHANGED <<phase, procs>>

\* One tick of the interval set by startPeriodicCleanup.
PeriodicCleanup ==
    /\ IF estimateIndexSize(index) > index.maxCacheSize
       THEN /\ index' = evictLRU(index)
            /\ lastOp' = [op |-> "evictLRU", before |-> index.accessTimes,
                          exceeded |-> TRUE]
       ELSE /\ index' = index
            /\ lastOp' = [op |-> "cleanup"]
    /\ UNCHANGED <<phase, procs>>

NextMemory ==
    \/ \E f \in CachedFiles, now \in 0..MaxClock : RecordAccess(f, now)
    \/ \E f \in CachedFiles, changeType \in {"create", "change", "delete"},
          now \in 0..MaxClock : InvalidateCache(f, changeType, now)
    \/ EvictLRU
    \/ PeriodicCleanup

SpecMemory == InitMemory /\ [][NextMemory]_vars

(***************************************************************************)
(* C38  evictLRU removes the least recently accessed fifth of the tracked  *)
(* files: every evicted file was last accessed no later than every file    *)
(* that is kept; and when it has run because the estimated index size      *)
(* exceeded the configured maximum, the estimated index size is below      *)
(* that maximum afterwards.                                                *)
(***************************************************************************)
\* The access time of a file among the entries.
TimeOf(entries, filePath) ==
    (CHOOSE i \in 1..Len(entries) : entries[i].file = filePath)

C38_EvictsOldestFifth ==
    lastOp.op = "evictLRU" =>
        LET before == lastOp.before
            kept == Keys(index.accessTimes)
            evicted == Keys(before) \ kept
        IN  /\ kept \subseteq Keys(before)
            /\ Cardinality(evicted) = Len(before) \div 5
            /\ \A e \in evicted, k \in kept :
                   before[TimeOf(before, e)].time
                       <= before[TimeOf(before, k)].time
            /\ lastOp.exceeded
                   => estimateIndexSize(index) < index.maxCacheSize

(***************************************************************************)
(* FileWatcher.  In the specification of the file watcher the variable     *)
(* index holds the two fields of the FileWatcher, watcher and callback (0  *)
(* and "" are undefined), and the file system watchers that were created   *)
(* and not disposed; lastOp holds the last call or the last file event     *)
(* with what handleChange did with it.  A path is the sequence of its      *)
(* parts between dots.                                                     *)
(***************************************************************************)
MaxWatchers == 3

Callbacks == {"onChange1", "onChange2"}

EventPaths ==
    {<<"A", "java">>, <<"A", "JAVA">>, <<"notes", "txt">>, <<"java">>,
     <<"A", "java", "bak">>}

NewFileWatcher == [watcher |-> 0, callback |-> "", created |-> 0, live |-> {}]

\* createFileSystemWatcher gives a new watcher; the three handlers registered
\* on it stay registered until it is disposed.
startWatching(fw, callback) ==
    [watcher |-> fw.created + 1, callback |-> callback,
     created |-> fw.created + 1, live |-> fw.live \cup {fw.created + 1}]

stopWatching(fw) ==
    IF fw.watcher # 0
    THEN [fw EXCEPT !.watcher = 0, !.live = @ \ {fw.watcher}]
    ELSE fw

\* uri.fsPath.endsWith('.java')
shouldWatch(path) == Len(path) >= 2 /\ path[Len(path)] = "java"

\* handleChange: the callback the event is handed to, "" when it is dropped.
handleChange(fw, path) ==
    IF fw.callback # "" /\ shouldWatch(path) THEN fw.callback ELSE ""

InitWatcher ==
    /\ index = NewFileWatcher
    /\ phase = "init"
    /\ procs = [p \in Procs |-> IdleProc]
    /\ lastOp = NoOp

StartWatching(callback) ==
    /\ index.created < MaxWatchers
    /\ index' = startWatching(index, callback)
    /\ lastOp' = [op |-> "startWatching", callback |-> callback]
    /\ UNCHANGED <<phase, procs>>

StopWatching ==
    /\ index' = stopWatching(index)
    /\ lastOp' = [op |-> "stopWatching"]
    /\ UNCHANGED <<phase, procs>>

\* A watcher that is not disposed fires one of its three events.
FileChanged(w, type, path) ==
    /\ w \in index.live
    /\ lastOp' = [op |-> "event", watcher |-> w, type |-> type,
                  path |-> path, deliveredTo |-> handleChange(index, path)]
    /\ UNCHANGED <<index, phase, procs>>

NextWatcher ==
    \/ \E callback \in Callbacks : StartWatching(callback)
    \/ StopWatching
    \/ \E w \in 1..MaxWatchers, type \in {"create", "change", "delete"},
          path \in EventPaths : FileChanged(w, type, path)

SpecWatcher == InitWatcher /\ [][NextWatcher]_vars

(***************************************************************************)
(* C39  After stopWatching has returned and until startWatching is called  *)
(* again no file event is delivered to a callback, whatever calls of       *)
(* startWatching and stopWatching came before, two startWatching in a row  *)
(* included; and while watching, only events for paths that end in .java   *)
(* reach the callback.                                                     *)
(***************************************************************************)
\* startWatching was called and stopWatching has not been called since.
Watching == index.watcher # 0

C39_NoEventAfterStop ==
    (lastOp.op = "event" /\ lastOp.deliveredTo # "")
        => /\ Watching
           /\ lastOp.path[Len(lastOp.path)] = "java"
           /\ Len(lastOp.path) >= 2

=============================================================================
